---- MODULE Spec2Model ----
(***************************************************************************)
(* Verification model of the Nova Voice Engine V2 endpoint: the frame      *)
(* buffer (BufferManager), the datagram transport (UDPManager) with its    *)
(* wire format, and the codec wrapper (LyraCodec).                         *)
(***************************************************************************)
EXTENDS Integers, Sequences, FiniteSets, TLC

(***************************************************************************)
(* Bounds of the exploration.                                              *)
(***************************************************************************)
\* largest capacity handed to setMaxBufferSize
MaxCap == 2
\* number of accepted push calls explored in one behaviour
MaxPushes == 4
\* frames offered to the buffer by two threads calling concurrently
MaxContended == 2
\* frames the capture and the receive thread push between them
MaxDropPushes == 6
\* number of frames pushed in a burst
MaxBurst == 6
\* number of encode calls that pass validation, of encode calls that fail,
\* and of decode calls
MaxEncodes == 3
MaxEncodeErrors == 2
MaxDecodes == 2
\* number of datagrams the receiver thread reads, and of sendto calls
MaxDatagrams == 2
MaxSends == 1
\* sendto calls in the send scenario
MaxSendtos == 3
\* number of periods the capture worker reads, and of snd_pcm_writei calls
MaxCaptured == 1
\* -EPIPE returns of snd_pcm_readi
MaxOverruns == 1
MaxPeriods == 1
\* number of datagrams that arrive while the whole program runs
MaxArrivals == 1
\* clock ticks explored, and frames that arrive, around one waiting reader
MaxClock == 5
MaxFrames == 3
\* calls made on a BitrateCalculator; reports and updates of a scenario
MaxCalcOps == 4
MaxReports == 6
MaxScenarioUpdates == 11
\* calls made on the calculator that is handed the grid of network metrics
MaxTargetOps == 2
\* frames that pass through the input chain of an AudioPreprocessor
MaxInputFrames == 2

(***************************************************************************)
(* Program constants.                                                      *)
(***************************************************************************)
BUFFER_COUNT == 10
FRAMES_PER_BUFFER == 1024
BITS_PER_SAMPLE == 16
maxHistorySize_ == 100
LYRA_SAMPLE_RATE == 16000
LYRA_FRAME_SIZE_MS == 20
LYRA_FRAME_SIZE == (LYRA_SAMPLE_RATE * LYRA_FRAME_SIZE_MS) \div 1000
LYRA_MIN_BITRATE == 3200
LYRA_MAX_BITRATE == 9200
LYRA_DEFAULT_BITRATE == 6000
CHANNELS == 1

Threads == {"t1", "t2"}
Queues == {"in", "out"}
\* threads calling LyraCodec::encode
Encoders == {"e1", "e2"}

VARIABLES
    \* BufferManager
    inputBuffer_, outputBuffer_, maxBufferSize_, nextSequenceNumber_,
    droppedPackets_, totalPackets_,
    \* callers of the BufferManager: position, loaded register, packet in hand
    pc, reg, pkt,
    \* value returned by the call completed last
    ret,
    \* history of the BufferManager calls: frames accepted by push and frames
    \* returned by pop per queue, frames removed by removeOldPackets, and the
    \* sequence number pushInputBuffer assigned last (-1: none yet)
    pushed, popped, evicted, lastAssigned,
    \* byte order of the host the endpoint is built for
    hostLittleEndian,
    \* LyraCodec
    initialized_, sampleRate_, channels_, currentBitrate_, frameSize_,
    codecNextSequenceNumber_, encodedFrames_, encodingErrors_,
    \* encode calls in progress: position, argument, std::optional returned last
    encPc, encArg, encRet,
    \* sequence number of the EncodedPacket constructed last (-1: none yet)
    lastEncoded,
    \* the check that rejected the encode call rejected last ("none" yet)
    encRejectedBy,
    \* what the initialize or setBitrate call completed last returned ("none"
    \* yet), and the bitrate accepted last (the constructor's to begin with)
    codecRet, acceptedBitrate,
    \* decode: the counters, the payload of the call completed last and the
    \* std::optional it returned; the frame behind each encRet
    decodedFrames_, decodingErrors_, decArg, decRet, encFrame,
    \* the wire format applied to one packet: the packet, the datagram, the
    \* packet deserialized from it, and how far the exchange has got
    wirePacket, wireData, wireOut, wireStage,
    \* UDPManager
    socketFd_, isRunning_, isServer_, remoteAddr_,
    sentPackets_, receivedPackets_, failedSends_,
    bufferManager_, onPacketReceived_,
    \* receiverThread_: "none", "running" (between two recvfrom calls),
    \* "blocked" (inside recvfrom), or "finished" (loop left, not joined)
    receiverThread_,
    \* a stop() call is waiting in join
    stopping,
    \* the datagram the last recvfrom left in the receive buffer
    rxBuffer,
    \* history: datagrams read by recvfrom, those of them shorter than four
    \* bytes, invocations of the packet-received callback, the destination of the last
    \* sendto, and the address the last setRemoteAddress call was given if
    \* the call succeeded on a transport started with startServer
    datagramsRead, shortDatagrams, packetCallbacks, sentTo, peerRemote,
    \* what the startServer, startClient, setRemoteAddress, sendAudioPacket or
    \* sendData call completed last returned ("none" yet)
    udpRet,
    \* a setRemoteAddress call followed statement by statement: where it
    \* stands ("idle": no such call) and the ip it was given
    setCall,
    \* main.cpp: g_running; where main() and the signal handler stand (ctl);
    \* the thread the handler runs on; the value main() is going to return;
    \* how the process ended ("running" while it has not); the statistics
    \* thread
    g_running, ctl, sigThread, mainReturn, exitStatus, statsThread,
    \* AudioCapture; captureThread_ is "none", "running", "holding" (a
    \* period read and not yet pushed), "sleeping" (after a failed
    \* readAudioData) or "finished"
    isCapturing_, captureThread_, capturedFrames_, bufferOverruns_,
    \* AudioPlayer; playbackThread_ is "none", "running", "fetched"
    \* (getNextAudioData has returned) or "finished"
    isPlaying_, playbackThread_, playedFrames_, bufferUnderruns_,
    \* the bytes handed to snd_pcm_writei last, and the number of such calls
    pcmWritten, pcmWrites,
    \* getNextPlaybackPacket waiting on outputCondition_: the time, the time
    \* the call in progress began, the absolute time its wait ends, and the
    \* arrival number of the frame handed to playback last
    clock, waitStart, waitDeadline, lastPlayed,
    \* BitrateCalculator: initialized_ and currentBitrate_ (named apart from
    \* the codec's), the other members, metricsMutex_ ("free", or
    \* "deadlocked" once a thread has locked it twice), and of the calls made
    \* so far their number, the name of the last, the number of metric updates
    \* and the changes committed while the same metrics were reported
    calcInitialized_, calcCurrentBitrate_, recommendedBitrate_, bitrateHistory_,
    bitrateChanges_, targetQuality_, adaptationSpeed_, stabilityThreshold_,
    qualityMode_, autoAdaptationEnabled_, networkMetrics_, audioMetrics_,
    metricsMutex_, calcOps, lastOp, calcUpdates, repeatChanges,
    \* AudioPreprocessor: initialized_ (named apart from the codec's), config_,
    \* whether codec_ and noiseSuppresor_ point to an object, the
    \* NoiseSuppresor's threshold_ and currentMetrics_.speechProbability,
    \* currentGain_ and targetGain_ in thousandths, whether the
    \* onSpeechDetected_ callback is set, totalProcessedFrames_
    prepInitialized_, config_, codec_, noiseSuppresor_, threshold_,
    speechProbability, currentGain_, targetGain_, onSpeechDetected_,
    totalProcessedFrames_,
    \* history of the AudioPreprocessor calls: the name, the argument and the
    \* result of the call completed last, the samples applyAGC left in the
    \* buffer last, the sub-frames of RNNOISE_FRAME_SIZE samples (counted from
    \* 0) the last input chain handed to NoiseSuppresor::process, the
    \* speechDetected value of every input frame and the values the callback
    \* was invoked with
    prepOp, prepArg, prepRet, agcOut, denoised, speechSeen, speechCalls

bufferVars == <<inputBuffer_, outputBuffer_, maxBufferSize_, nextSequenceNumber_,
                droppedPackets_, totalPackets_>>
callerVars == <<pc, reg, pkt, ret>>
historyVars == <<pushed, popped, evicted, lastAssigned>>
bufferSide == <<bufferVars, callerVars, historyVars>>
codecVars == <<initialized_, sampleRate_, channels_, currentBitrate_, frameSize_,
               codecNextSequenceNumber_, encodedFrames_, encodingErrors_>>
encoderVars == <<encPc, encArg, encRet, lastEncoded, encRejectedBy>>
codecCalls == <<codecRet, acceptedBitrate>>
decoderVars == <<decodedFrames_, decodingErrors_, decArg, decRet>>
codecSide == <<codecVars, encoderVars, codecCalls, decoderVars, encFrame>>
wireSide == <<wirePacket, wireData, wireOut, wireStage>>
udpVars == <<socketFd_, isRunning_, isServer_, remoteAddr_,
             sentPackets_, receivedPackets_, failedSends_,
             bufferManager_, onPacketReceived_,
             receiverThread_, stopping, rxBuffer>>
udpHistory == <<datagramsRead, shortDatagrams, packetCallbacks,
                sentTo, peerRemote, udpRet>>
udpSide == <<udpVars, udpHistory, setCall>>
mainVars == <<g_running, ctl, sigThread, mainReturn, exitStatus, statsThread>>
captureVars == <<isCapturing_, captureThread_, capturedFrames_, bufferOverruns_>>
playerVars == <<isPlaying_, playbackThread_, playedFrames_, bufferUnderruns_,
                pcmWritten, pcmWrites>>
pipeSide == <<mainVars, captureVars, playerVars>>
waitSide == <<clock, waitStart, waitDeadline, lastPlayed>>
calcSettings == <<targetQuality_, adaptationSpeed_, stabilityThreshold_, qualityMode_,
                  autoAdaptationEnabled_>>
calcHistory == <<calcOps, lastOp, calcUpdates, repeatChanges>>
calcSide == <<calcInitialized_, calcCurrentBitrate_, recommendedBitrate_,
              bitrateHistory_, bitrateChanges_, calcSettings, networkMetrics_,
              audioMetrics_, metricsMutex_, calcHistory>>
prepVars == <<prepInitialized_, config_, codec_, noiseSuppresor_, threshold_,
              speechProbability, currentGain_, targetGain_, onSpeechDetected_,
              totalProcessedFrames_>>
prepHistory == <<prepOp, prepArg, prepRet, agcOut, denoised, speechSeen, speechCalls>>
prepSide == <<prepVars, prepHistory>>
vars == <<bufferSide, hostLittleEndian, codecSide, wireSide, udpSide, pipeSide,
          waitSide, calcSide, prepSide>>

(***************************************************************************)
(* AudioPacket and the shared_ptr that may be null.                        *)
(***************************************************************************)
AudioPacket(audioData, seqNum) ==
    [isNull |-> FALSE, sequenceNumber |-> seqNum, data |-> audioData]

NullPacket == [isNull |-> TRUE, sequenceNumber |-> 0, data |-> <<>>]

\* arguments (data, size) of pushInputBuffer: a null pointer, size 0, one byte
NullData == [isNull |-> TRUE, bytes |-> <<>>]
BufferInputs == {NullData, [isNull |-> FALSE, bytes |-> <<>>],
                 [isNull |-> FALSE, bytes |-> <<7>>]}

\* packets handed directly to pushAudioPacket / pushNetworkPacket
SamplePackets == {NullPacket, AudioPacket(<<7>>, 9)}

Returned(ok, packet) == [ok |-> ok, packet |-> packet]

(***************************************************************************)
(* BufferManager helpers.                                                  *)
(***************************************************************************)
isBufferFull(buffer) == Len(buffer) >= maxBufferSize_

removeOldPackets(buffer) == IF buffer # <<>> THEN Tail(buffer) ELSE buffer

InputLocked == \E t \in Threads : pc[t] = "dropIn"
OutputLocked == \E t \in Threads : pc[t] = "dropOut"
Quiescent == \A t \in Threads : pc[t] = "idle"

PushBudget == pushed["in"] + pushed["out"]
                + Cardinality({t \in Threads : pc[t] \in {"seqLoaded", "pushIn", "dropIn", "dropOut"}})
                < MaxPushes

InitBufferManager ==
    /\ inputBuffer_ = <<>>
    /\ outputBuffer_ = <<>>
    /\ maxBufferSize_ = BUFFER_COUNT
    /\ nextSequenceNumber_ = 0
    /\ droppedPackets_ = 0
    /\ totalPackets_ = 0
    /\ pc = [t \in Threads |-> "idle"]
    /\ reg = [t \in Threads |-> 0]
    /\ pkt = [t \in Threads |-> NullPacket]
    /\ ret = Returned(FALSE, NullPacket)
    /\ pushed = [q \in Queues |-> 0]
    /\ popped = [q \in Queues |-> 0]
    /\ evicted = 0
    /\ lastAssigned = -1

(***************************************************************************)
(* The bytes of a 16-bit and of a 32-bit integer as the host keeps them in *)
(* memory (what memcpy and reinterpret_cast read and write).               *)
(***************************************************************************)
HostBytes16(value) ==
    LET u == IF value < 0 THEN value + 65536 ELSE value
    IN  IF hostLittleEndian THEN <<u % 256, u \div 256>>
                            ELSE <<u \div 256, u % 256>>

HostBytes32(value) ==
    LET b0 == value % 256
        b1 == (value \div 256) % 256
        b2 == (value \div 65536) % 256
        b3 == value \div 16777216
    IN  IF hostLittleEndian THEN <<b0, b1, b2, b3>> ELSE <<b3, b2, b1, b0>>

HostValue32(bytes) ==
    IF hostLittleEndian
    THEN bytes[1] + 256 * bytes[2] + 65536 * bytes[3] + 16777216 * bytes[4]
    ELSE bytes[4] + 256 * bytes[3] + 65536 * bytes[2] + 16777216 * bytes[1]

(***************************************************************************)
(* LyraCodec.                                                              *)
(***************************************************************************)
EncodedPacket(packetData, seqNum, br) ==
    [isNull |-> FALSE, sequenceNumber |-> seqNum, bitrate |-> br, data |-> packetData]

\* std::nullopt
NoPacket == [isNull |-> TRUE, sequenceNumber |-> 0, bitrate |-> 0, data |-> <<>>]

ConstFrame(n, sample) == [i \in 1..n |-> sample]

\* arguments (audioData, sampleCount) of encode: a null pointer, no samples,
\* 20 ms at 16 kHz, one sample short of it, 20 ms at 48 kHz
NullAudio == [isNull |-> TRUE, samples |-> <<>>]
EncodeInputs ==
    {NullAudio} \cup
    {[isNull |-> FALSE, samples |-> f] :
        f \in {<<>>, ConstFrame(320, 0), ConstFrame(320, -2), ConstFrame(319, 1),
               ConstFrame(960, 258)}}

isValidBitrate(bitrate) ==
    bitrate >= LYRA_MIN_BITRATE /\ bitrate <= LYRA_MAX_BITRATE

validateParameters(sampleRate, channels, bitrate) ==
    /\ channels = 1
    /\ sampleRate \in {16000, 32000, 48000}
    /\ isValidBitrate(bitrate)

getExpectedInputSize == frameSize_ * channels_

\* validateInputSize that accepts every length
validateInputSizeAny(sampleCount) == TRUE

validateInputSize(sampleCount) == sampleCount = getExpectedInputSize

\* the byte view of the samples
encodeRaw(samples) ==
    [i \in 1..(2 * Len(samples)) |-> HostBytes16(samples[(i + 1) \div 2])[((i - 1) % 2) + 1]]

\* the 16-bit sample the host reads from two bytes of memory
HostValue16(bytes) ==
    LET u == IF hostLittleEndian THEN bytes[1] + 256 * bytes[2]
                                 ELSE bytes[2] + 256 * bytes[1]
    IN  IF u >= 32768 THEN u - 65536 ELSE u

\* decodeRaw that takes the low byte first on every host
decodeRawLowByteFirst(encodedData) ==
    IF Len(encodedData) % 2 # 0
    THEN <<>>
    ELSE [i \in 1..(Len(encodedData) \div 2) |->
             LET u == encodedData[2 * i - 1] + 256 * encodedData[2 * i]
             IN  IF u >= 32768 THEN u - 65536 ELSE u]

\* memcpy of the bytes into dataSize / 2 samples; none for an odd dataSize
decodeRaw(encodedData) ==
    IF Len(encodedData) % 2 # 0
    THEN <<>>
    ELSE [i \in 1..(Len(encodedData) \div 2) |->
             HostValue16(<<encodedData[2 * i - 1], encodedData[2 * i]>>)]

\* arguments (encodedData, dataSize) of decode
EncodedData(bytes) == [isNull |-> FALSE, bytes |-> bytes]

\* the std::optional decode returns with samples in it
DecodedAudio(samples) == [isNull |-> FALSE, samples |-> samples]

InitCodec ==
    /\ initialized_ = FALSE
    /\ sampleRate_ = LYRA_SAMPLE_RATE
    /\ channels_ = CHANNELS
    /\ currentBitrate_ = LYRA_DEFAULT_BITRATE
    /\ frameSize_ = LYRA_FRAME_SIZE
    /\ codecNextSequenceNumber_ = 0
    /\ encodedFrames_ = 0
    /\ encodingErrors_ = 0
    /\ encPc = [e \in Encoders |-> "idle"]
    /\ encArg = [e \in Encoders |-> NullAudio]
    /\ encRet = [e \in Encoders |-> NoPacket]
    /\ lastEncoded = -1
    /\ encRejectedBy = "none"
    /\ codecRet = "none"
    /\ acceptedBitrate = LYRA_DEFAULT_BITRATE
    /\ decodedFrames_ = 0
    /\ decodingErrors_ = 0
    /\ decArg = NullData
    /\ decRet = NullAudio
    /\ encFrame = [e \in Encoders |-> <<>>]

InitWireIdle ==
    /\ wirePacket = NullPacket
    /\ wireData = <<>>
    /\ wireOut = NullPacket
    /\ wireStage = "idle"

\* a sockaddr_in; the constructor zeroes remoteAddr_
Addr(ip, port) == [ip |-> ip, port |-> port]
ZeroAddr == Addr("0.0.0.0", 0)

NoSetCall == [pc |-> "idle", ip |-> ""]

InitUDPManager ==
    /\ socketFd_ = -1
    /\ isRunning_ = FALSE
    /\ isServer_ = FALSE
    /\ remoteAddr_ = ZeroAddr
    /\ sentPackets_ = 0
    /\ receivedPackets_ = 0
    /\ failedSends_ = 0
    /\ bufferManager_ = FALSE
    /\ onPacketReceived_ = FALSE
    /\ receiverThread_ = "none"
    /\ stopping = FALSE
    /\ rxBuffer = <<>>
    /\ datagramsRead = 0
    /\ shortDatagrams = 0
    /\ packetCallbacks = 0
    /\ sentTo = ZeroAddr
    /\ peerRemote = ZeroAddr
    /\ setCall = NoSetCall
    /\ udpRet = "none"

\* BitrateCalculator::BitrateCalculator
InitBitrateCalculator ==
    /\ calcInitialized_ = FALSE
    /\ calcCurrentBitrate_ = LYRA_DEFAULT_BITRATE
    /\ recommendedBitrate_ = LYRA_DEFAULT_BITRATE
    /\ targetQuality_ = 5
    /\ adaptationSpeed_ = 3
    /\ stabilityThreshold_ = 1
    /\ qualityMode_ = "ADAPTIVE"
    /\ autoAdaptationEnabled_ = TRUE
    /\ networkMetrics_ = [packetLossRate |-> 0, averageLatency |-> 0, jitter |-> 0,
                          bandwidth |-> 0]
    /\ audioMetrics_ = [signalToNoiseRatio |-> 0, averageVolume |-> 0,
                        speechDetected |-> FALSE]
    /\ bitrateHistory_ = <<>>
    /\ bitrateChanges_ = 0
    /\ metricsMutex_ = "free"
    /\ calcOps = 0
    /\ lastOp = "none"
    /\ calcUpdates = 0
    /\ repeatChanges = 0

\* PreprocessingConfig as its default member initializers leave it; the
\* levels and the threshold are in thousandths
DefaultConfig ==
    [enableNoiseSupression |-> TRUE, enableCodec |-> TRUE, enableVAD |-> TRUE,
     enableAGC |-> TRUE, noiseSuppressionLevel |-> 800, vadThreshold |-> 500,
     agcTargetLevel |-> 700, targetBitrate |-> LYRA_DEFAULT_BITRATE]

\* AudioPreprocessor::AudioPreprocessor
InitAudioPreprocessor ==
    /\ prepInitialized_ = FALSE
    /\ config_ = DefaultConfig
    /\ codec_ = FALSE
    /\ noiseSuppresor_ = FALSE
    /\ threshold_ = 500
    /\ speechProbability = 0
    /\ currentGain_ = 1000
    /\ targetGain_ = 1000
    /\ onSpeechDetected_ = FALSE
    /\ totalProcessedFrames_ = 0
    /\ prepOp = "none"
    /\ prepArg = <<>>
    /\ prepRet = [ok |-> FALSE]
    /\ agcOut = <<>>
    /\ denoised = {}
    /\ speechSeen = <<>>
    /\ speechCalls = <<>>

\* no call of getNextPlaybackPacket in progress
InitPlaybackWait ==
    /\ clock = 0
    /\ waitStart = 0
    /\ waitDeadline = 0
    /\ lastPlayed = 0

\* main() entered, AudioCapture and AudioPlayer constructed
InitPipeline ==
    /\ g_running = TRUE
    /\ ctl = [c \in {"main", "signal"} |-> IF c = "main" THEN "start" ELSE "none"]
    /\ sigThread = "none"
    /\ mainReturn = 0
    /\ exitStatus = "running"
    /\ statsThread = "none"
    /\ isCapturing_ = FALSE
    /\ captureThread_ = "none"
    /\ capturedFrames_ = 0
    /\ bufferOverruns_ = 0
    /\ isPlaying_ = FALSE
    /\ playbackThread_ = "none"
    /\ playedFrames_ = 0
    /\ bufferUnderruns_ = 0
    /\ pcmWritten = <<>>
    /\ pcmWrites = 0

\* the endpoint after construction, on a host of either byte order
Init ==
    /\ hostLittleEndian \in BOOLEAN
    /\ InitBufferManager
    /\ InitCodec
    /\ InitWireIdle
    /\ InitUDPManager
    /\ InitPipeline
    /\ InitPlaybackWait
    /\ InitBitrateCalculator
    /\ InitAudioPreprocessor

InitBuffer == Init /\ hostLittleEndian

\* initialize, under codecMutex_
Initialize(sampleRate, channels, bitrate) ==
    /\ IF initialized_ \/ ~validateParameters(sampleRate, channels, bitrate)
       THEN /\ codecRet' = "false"
            /\ UNCHANGED <<initialized_, sampleRate_, channels_, currentBitrate_,
                           frameSize_, acceptedBitrate>>
       ELSE /\ sampleRate_' = sampleRate
            /\ channels_' = channels
            /\ currentBitrate_' = bitrate
            /\ frameSize_' = (sampleRate * LYRA_FRAME_SIZE_MS) \div 1000
            /\ initialized_' = TRUE
            /\ codecRet' = "true"
            /\ acceptedBitrate' = bitrate
    /\ UNCHANGED <<codecNextSequenceNumber_, encodedFrames_, encodingErrors_, encoderVars,
                   decoderVars, encFrame>>

\* setBitrate that stores whatever it is given
SetBitrateUnchecked(bitrate) ==
    /\ currentBitrate_' = bitrate
    /\ codecRet' = "true"
    /\ acceptedBitrate' = bitrate
    /\ UNCHANGED <<initialized_, sampleRate_, channels_, frameSize_,
                   codecNextSequenceNumber_, encodedFrames_, encodingErrors_, encoderVars,
                   decoderVars, encFrame>>

\* setBitrate: rejected out of range, stored under codecMutex_ otherwise
SetBitrate(bitrate) ==
    /\ IF ~isValidBitrate(bitrate)
       THEN /\ codecRet' = "false"
            /\ UNCHANGED <<currentBitrate_, acceptedBitrate>>
       ELSE /\ currentBitrate_' = bitrate
            /\ codecRet' = "true"
            /\ acceptedBitrate' = bitrate
    /\ UNCHANGED <<initialized_, sampleRate_, channels_, frameSize_,
                   codecNextSequenceNumber_, encodedFrames_, encodingErrors_, encoderVars,
                   decoderVars, encFrame>>

(***************************************************************************)
(* encode: the checks made before codecMutex_ is taken, the part under     *)
(* codecMutex_, and the return to the caller.                              *)
(***************************************************************************)
EncodeValid(input) ==
    /\ initialized_
    /\ ~input.isNull /\ Len(input.samples) # 0
    /\ validateInputSize(Len(input.samples))

EncodeRejected(e, input) ==
    /\ encPc[e] = "idle"
    /\ UNCHANGED <<codecCalls, decoderVars>>
    /\ ~EncodeValid(input)
    /\ encFrame' = [encFrame EXCEPT ![e] = <<>>]
    /\ encodingErrors_' = encodingErrors_ + 1
    /\ encRet' = [encRet EXCEPT ![e] = NoPacket]
    /\ encRejectedBy' = IF ~initialized_ THEN "initialized_"
                        ELSE IF input.isNull \/ Len(input.samples) = 0 THEN "audioData"
                        ELSE "validateInputSize"
    /\ UNCHANGED <<initialized_, sampleRate_, channels_, currentBitrate_, frameSize_,
                   codecNextSequenceNumber_, encodedFrames_, encPc, encArg, lastEncoded>>

EncodeValidated(e, input) ==
    /\ encPc[e] = "idle"
    /\ UNCHANGED <<codecCalls, decoderVars, encFrame>>
    /\ EncodeValid(input)
    /\ encPc' = [encPc EXCEPT ![e] = "validated"]
    /\ encArg' = [encArg EXCEPT ![e] = input]
    /\ UNCHANGED <<codecVars, encRet, lastEncoded, encRejectedBy>>

\* encode without the post-increment of nextSequenceNumber_
EncodeLockedSameNumber(e) ==
    /\ encPc[e] = "validated"
    /\ UNCHANGED <<codecCalls, decoderVars>>
    /\ encFrame' = [encFrame EXCEPT ![e] = encArg[e].samples]
    /\ encRet' = [encRet EXCEPT ![e] =
           EncodedPacket(encodeRaw(encArg[e].samples), codecNextSequenceNumber_,
                         currentBitrate_)]
    /\ lastEncoded' = codecNextSequenceNumber_
    /\ encodedFrames_' = encodedFrames_ + 1
    /\ encPc' = [encPc EXCEPT ![e] = "return"]
    /\ encArg' = [encArg EXCEPT ![e] = NullAudio]
    /\ UNCHANGED <<initialized_, sampleRate_, channels_, currentBitrate_, frameSize_,
                   codecNextSequenceNumber_, encodingErrors_, encRejectedBy>>

EncodeLocked(e) ==
    /\ encPc[e] = "validated"
    /\ UNCHANGED <<codecCalls, decoderVars>>
    /\ LET encodedData == encodeRaw(encArg[e].samples)
       IN  IF encodedData = <<>>
           THEN /\ encodingErrors_' = encodingErrors_ + 1
                /\ encRet' = [encRet EXCEPT ![e] = NoPacket]
                /\ encFrame' = [encFrame EXCEPT ![e] = <<>>]
                /\ UNCHANGED <<codecNextSequenceNumber_, encodedFrames_, lastEncoded>>
           ELSE /\ encRet' = [encRet EXCEPT ![e] =
                       EncodedPacket(encodedData, codecNextSequenceNumber_, currentBitrate_)]
                /\ encFrame' = [encFrame EXCEPT ![e] = encArg[e].samples]
                /\ codecNextSequenceNumber_' = codecNextSequenceNumber_ + 1
                /\ lastEncoded' = codecNextSequenceNumber_
                /\ encodedFrames_' = encodedFrames_ + 1
                /\ UNCHANGED encodingErrors_
    /\ encPc' = [encPc EXCEPT ![e] = "return"]
    /\ encArg' = [encArg EXCEPT ![e] = NullAudio]
    /\ UNCHANGED <<initialized_, sampleRate_, channels_, currentBitrate_, frameSize_,
                   encRejectedBy>>

EncodeReturn(e) ==
    /\ encPc[e] = "return"
    /\ UNCHANGED <<codecCalls, decoderVars, encFrame>>
    /\ encPc' = [encPc EXCEPT ![e] = "idle"]
    /\ UNCHANGED <<codecVars, encArg, encRet, lastEncoded, encRejectedBy>>

EncodeBudget ==
    encodedFrames_ + Cardinality({e \in Encoders : encPc[e] = "validated"}) < MaxEncodes

\* decode: the checks made before codecMutex_ is taken and the part under it
Decode(data) ==
    /\ decArg' = data
    /\ IF ~initialized_ \/ data.isNull \/ Len(data.bytes) = 0
       THEN /\ decodingErrors_' = decodingErrors_ + 1
            /\ decRet' = NullAudio
            /\ UNCHANGED decodedFrames_
       ELSE LET decodedAudio == decodeRaw(data.bytes)
            IN  IF decodedAudio = <<>>
                THEN /\ decodingErrors_' = decodingErrors_ + 1
                     /\ decRet' = NullAudio
                     /\ UNCHANGED decodedFrames_
                ELSE /\ decodedFrames_' = decodedFrames_ + 1
                     /\ decRet' = DecodedAudio(decodedAudio)
                     /\ UNCHANGED decodingErrors_
    /\ UNCHANGED <<codecVars, encoderVars, codecCalls, encFrame>>

\* a call on the codec leaves the buffers and the transport alone
CodecOnly ==
    UNCHANGED <<bufferSide, hostLittleEndian, prepSide, wireSide, udpSide, pipeSide,
                waitSide, calcSide>>

NextCodec ==
    \/ \E sampleRate \in {8000, 16000, 48000}, channels \in {1, 2},
          bitrate \in {LYRA_MIN_BITRATE, LYRA_MAX_BITRATE + 1} :
          Initialize(sampleRate, channels, bitrate) /\ CodecOnly
    \/ \E bitrate \in {LYRA_MIN_BITRATE - 1, LYRA_DEFAULT_BITRATE} :
          SetBitrate(bitrate) /\ CodecOnly
    \/ \E e \in Encoders, input \in EncodeInputs :
          encodingErrors_ < MaxEncodeErrors /\ EncodeRejected(e, input) /\ CodecOnly
    \/ \E e \in Encoders, input \in EncodeInputs :
          EncodeBudget /\ EncodeValidated(e, input) /\ CodecOnly
    \/ \E e \in Encoders : EncodeLocked(e) /\ CodecOnly
    \/ \E e \in Encoders : EncodeReturn(e) /\ CodecOnly

SpecCodec == Init /\ [][NextCodec]_vars

\* frames of 20 ms at 16 kHz whose samples differ, and whose bytes differ
RampFrame(n) == [i \in 1..n |-> ((258 * i) % 65536) - 32768]
RoundTripInputs ==
    {NullAudio} \cup
    {[isNull |-> FALSE, samples |-> f] :
        f \in {ConstFrame(320, -2), RampFrame(320), ConstFrame(319, 1),
               RampFrame(960)}}

\* payloads handed to decode: a null pointer, no bytes, one byte, three
\* bytes, two samples, and the payload of a packet encode returned
DecodeInputs ==
    {NullData, EncodedData(<<>>), EncodedData(<<1>>), EncodedData(<<1, 2, 255>>),
     EncodedData(<<1, 2, 254, 255>>)}
       \cup {EncodedData(encRet[e].data) : e \in {e \in Encoders : ~encRet[e].isNull}}

\* one codec, frames encoded by it and payloads decoded by it, as many of the
\* ones as of the others
NextRoundTrip ==
    \/ \E sampleRate \in {16000, 48000} :
          Initialize(sampleRate, CHANNELS, LYRA_DEFAULT_BITRATE) /\ CodecOnly
    \/ \E input \in RoundTripInputs :
          encodingErrors_ < MaxEncodeErrors /\ EncodeRejected("e1", input) /\ CodecOnly
    \/ \E input \in RoundTripInputs :
          encodedFrames_ < MaxDecodes /\ EncodeValidated("e1", input) /\ CodecOnly
    \/ EncodeLocked("e1") /\ CodecOnly
    \/ EncodeReturn("e1") /\ CodecOnly
    \/ \E data \in DecodeInputs :
          /\ decodedFrames_ + decodingErrors_ < MaxDecodes
          /\ Decode(data) /\ CodecOnly

SpecRoundTrip == Init /\ [][NextRoundTrip]_vars
(***************************************************************************)
(* pushAudioPacket: the part under inputMutex_.  When the queue is full    *)
(* the oldest packet is removed and droppedPackets_++ follows; the counter *)
(* is a plain uint64_t also incremented under outputMutex_, so its         *)
(* increment is a load here and a store in PushAudioPacketFinish.          *)
(***************************************************************************)
PushAudioPacketLocked(t, packet) ==
    /\ ~InputLocked
    /\ IF isBufferFull(inputBuffer_)
       THEN /\ inputBuffer_' = removeOldPackets(inputBuffer_)
            /\ evicted' = evicted + (IF inputBuffer_ # <<>> THEN 1 ELSE 0)
            /\ reg' = [reg EXCEPT ![t] = droppedPackets_]
            /\ pkt' = [pkt EXCEPT ![t] = packet]
            /\ pc' = [pc EXCEPT ![t] = "dropIn"]
            /\ UNCHANGED <<totalPackets_, ret, pushed>>
       ELSE /\ inputBuffer_' = Append(inputBuffer_, packet)
            /\ totalPackets_' = totalPackets_ + 1
            /\ pushed' = [pushed EXCEPT !["in"] = @ + 1]
            /\ reg' = [reg EXCEPT ![t] = 0]
            /\ pkt' = [pkt EXCEPT ![t] = NullPacket]
            /\ pc' = [pc EXCEPT ![t] = "idle"]
            /\ ret' = Returned(TRUE, NullPacket)
            /\ UNCHANGED evicted
    /\ UNCHANGED <<outputBuffer_, maxBufferSize_, nextSequenceNumber_, droppedPackets_,
                   popped, lastAssigned>>

\* pushAudioPacket that refuses the frame when the queue was full
PushAudioPacketFinishRefusing(t) ==
    /\ pc[t] = "dropIn"
    /\ droppedPackets_' = reg[t] + 1
    /\ pc' = [pc EXCEPT ![t] = "idle"]
    /\ ret' = Returned(FALSE, NullPacket)
    /\ reg' = [reg EXCEPT ![t] = 0]
    /\ pkt' = [pkt EXCEPT ![t] = NullPacket]
    /\ UNCHANGED <<inputBuffer_, outputBuffer_, maxBufferSize_, nextSequenceNumber_,
                   totalPackets_, pushed, popped, evicted, lastAssigned>>

PushAudioPacketFinish(t) ==
    /\ pc[t] = "dropIn"
    /\ droppedPackets_' = reg[t] + 1
    /\ inputBuffer_' = Append(inputBuffer_, pkt[t])
    /\ totalPackets_' = totalPackets_ + 1
    /\ pushed' = [pushed EXCEPT !["in"] = @ + 1]
    /\ pc' = [pc EXCEPT ![t] = "idle"]
    /\ ret' = Returned(TRUE, NullPacket)
    /\ reg' = [reg EXCEPT ![t] = 0]
    /\ pkt' = [pkt EXCEPT ![t] = NullPacket]
    /\ UNCHANGED <<outputBuffer_, maxBufferSize_, nextSequenceNumber_,
                   popped, evicted, lastAssigned>>

\* pushAudioPacket called directly
PushAudioPacket(t, packet) ==
    /\ pc[t] = "idle"
    /\ IF packet.isNull
       THEN /\ ret' = Returned(FALSE, NullPacket)
            /\ UNCHANGED <<bufferVars, pc, reg, pkt, historyVars>>
       ELSE PushAudioPacketLocked(t, packet)

(***************************************************************************)
(* pushInputBuffer: nextSequenceNumber_++ is an unlocked read-modify-write *)
(* of a plain uint32_t, a load and a store.                                *)
(***************************************************************************)
PushInputBufferRejected(t, input) ==
    /\ pc[t] = "idle"
    /\ input.isNull \/ Len(input.bytes) = 0
    /\ ret' = Returned(FALSE, NullPacket)
    /\ UNCHANGED <<bufferVars, pc, reg, pkt, historyVars>>

PushInputBufferLoad(t, input) ==
    /\ pc[t] = "idle"
    /\ ~input.isNull /\ Len(input.bytes) # 0
    /\ reg' = [reg EXCEPT ![t] = nextSequenceNumber_]
    /\ pkt' = [pkt EXCEPT ![t] = AudioPacket(input.bytes, 0)]
    /\ pc' = [pc EXCEPT ![t] = "seqLoaded"]
    /\ UNCHANGED <<bufferVars, ret, historyVars>>

PushInputBufferStore(t) ==
    /\ pc[t] = "seqLoaded"
    /\ nextSequenceNumber_' = reg[t] + 1
    /\ pkt' = [pkt EXCEPT ![t] = AudioPacket(pkt[t].data, reg[t])]
    /\ lastAssigned' = reg[t]
    /\ pc' = [pc EXCEPT ![t] = "pushIn"]
    /\ UNCHANGED <<inputBuffer_, outputBuffer_, maxBufferSize_, droppedPackets_,
                   totalPackets_, reg, ret, pushed, popped, evicted>>

PushInputBufferPush(t) ==
    /\ pc[t] = "pushIn"
    /\ PushAudioPacketLocked(t, pkt[t])

(***************************************************************************)
(* pushNetworkPacket: as pushAudioPacket, on the output queue under        *)
(* outputMutex_, without totalPackets_.                                    *)
(***************************************************************************)
PushNetworkPacketLocked(t, packet) ==
    /\ ~OutputLocked
    /\ IF isBufferFull(outputBuffer_)
       THEN /\ outputBuffer_' = removeOldPackets(outputBuffer_)
            /\ evicted' = evicted + (IF outputBuffer_ # <<>> THEN 1 ELSE 0)
            /\ reg' = [reg EXCEPT ![t] = droppedPackets_]
            /\ pkt' = [pkt EXCEPT ![t] = packet]
            /\ pc' = [pc EXCEPT ![t] = "dropOut"]
            /\ UNCHANGED <<ret, pushed>>
       ELSE /\ outputBuffer_' = Append(outputBuffer_, packet)
            /\ pushed' = [pushed EXCEPT !["out"] = @ + 1]
            /\ reg' = [reg EXCEPT ![t] = 0]
            /\ pkt' = [pkt EXCEPT ![t] = NullPacket]
            /\ pc' = [pc EXCEPT ![t] = "idle"]
            /\ ret' = Returned(TRUE, NullPacket)
            /\ UNCHANGED evicted
    /\ UNCHANGED <<inputBuffer_, maxBufferSize_, nextSequenceNumber_, droppedPackets_,
                   totalPackets_, popped, lastAssigned>>

PushNetworkPacketFinish(t) ==
    /\ pc[t] = "dropOut"
    /\ droppedPackets_' = reg[t] + 1
    /\ outputBuffer_' = Append(outputBuffer_, pkt[t])
    /\ pushed' = [pushed EXCEPT !["out"] = @ + 1]
    /\ pc' = [pc EXCEPT ![t] = "idle"]
    /\ ret' = Returned(TRUE, NullPacket)
    /\ reg' = [reg EXCEPT ![t] = 0]
    /\ pkt' = [pkt EXCEPT ![t] = NullPacket]
    /\ UNCHANGED <<inputBuffer_, maxBufferSize_, nextSequenceNumber_, totalPackets_,
                   popped, evicted, lastAssigned>>

PushNetworkPacket(t, packet) ==
    /\ pc[t] = "idle"
    /\ IF packet.isNull
       THEN /\ ret' = Returned(FALSE, NullPacket)
            /\ UNCHANGED <<bufferVars, pc, reg, pkt, historyVars>>
       ELSE PushNetworkPacketLocked(t, packet)

(***************************************************************************)
(* popAudioPacket (also getNextOutputPacket) and getNextPlaybackPacket.    *)
(* The bounded wait of getNextPlaybackPacket ends with the queue non-empty *)
(* or, after 10 ms, still empty.                                           *)
(***************************************************************************)
PopAudioPacket(t) ==
    /\ pc[t] = "idle"
    /\ ~InputLocked
    /\ IF inputBuffer_ = <<>>
       THEN /\ ret' = Returned(FALSE, NullPacket)
            /\ UNCHANGED <<inputBuffer_, popped>>
       ELSE /\ ret' = Returned(TRUE, Head(inputBuffer_))
            /\ inputBuffer_' = Tail(inputBuffer_)
            /\ popped' = [popped EXCEPT !["in"] = @ + 1]
    /\ UNCHANGED <<outputBuffer_, maxBufferSize_, nextSequenceNumber_, droppedPackets_,
                   totalPackets_, pc, reg, pkt, pushed, evicted, lastAssigned>>

GetNextPlaybackPacket(t) ==
    /\ pc[t] = "idle"
    /\ ~OutputLocked
    /\ IF outputBuffer_ = <<>>
       THEN /\ ret' = Returned(FALSE, NullPacket)
            /\ UNCHANGED <<outputBuffer_, popped>>
       ELSE /\ ret' = Returned(TRUE, Head(outputBuffer_))
            /\ outputBuffer_' = Tail(outputBuffer_)
            /\ popped' = [popped EXCEPT !["out"] = @ + 1]
    /\ UNCHANGED <<inputBuffer_, maxBufferSize_, nextSequenceNumber_, droppedPackets_,
                   totalPackets_, pc, reg, pkt, pushed, evicted, lastAssigned>>

(***************************************************************************)
(* clearBuffers: the input queue under inputMutex_, the output queue under *)
(* outputMutex_, then nextSequenceNumber_ = 0 under no lock.               *)
(***************************************************************************)
ClearBuffersInput(t) ==
    /\ pc[t] = "idle"
    /\ ~InputLocked
    /\ inputBuffer_' = <<>>
    /\ pc' = [pc EXCEPT ![t] = "clearOut"]
    /\ UNCHANGED <<outputBuffer_, maxBufferSize_, nextSequenceNumber_, droppedPackets_,
                   totalPackets_, reg, pkt, ret, historyVars>>

ClearBuffersOutput(t) ==
    /\ pc[t] = "clearOut"
    /\ ~OutputLocked
    /\ outputBuffer_' = <<>>
    /\ pc' = [pc EXCEPT ![t] = "clearSeq"]
    /\ UNCHANGED <<inputBuffer_, maxBufferSize_, nextSequenceNumber_, droppedPackets_,
                   totalPackets_, reg, pkt, ret, historyVars>>

ClearBuffersSeq(t) ==
    /\ pc[t] = "clearSeq"
    /\ nextSequenceNumber_' = 0
    /\ pc' = [pc EXCEPT ![t] = "idle"]
    /\ UNCHANGED <<inputBuffer_, outputBuffer_, maxBufferSize_, droppedPackets_,
                   totalPackets_, reg, pkt, ret, historyVars>>

SetMaxBufferSize(t, maxSize) ==
    /\ pc[t] = "idle"
    /\ maxBufferSize_' = maxSize
    /\ UNCHANGED <<inputBuffer_, outputBuffer_, nextSequenceNumber_, droppedPackets_,
                   totalPackets_, callerVars, historyVars>>

(***************************************************************************)
(* The BufferManager called by the threads of T, in any order and          *)
(* interleaving; no more than MaxPushes frames are offered.                *)
(***************************************************************************)
\* a call on the BufferManager leaves the codec and the transport alone
BufferOnly ==
    UNCHANGED <<hostLittleEndian, prepSide, codecSide, wireSide, udpSide, pipeSide,
                waitSide, calcSide>>

BufferCalls(T) ==
    \/ \E t \in T, input \in BufferInputs :
          PushInputBufferRejected(t, input) /\ BufferOnly
    \/ \E t \in T, input \in BufferInputs :
          PushBudget /\ PushInputBufferLoad(t, input) /\ BufferOnly
    \/ \E t \in T : PushInputBufferStore(t) /\ BufferOnly
    \/ \E t \in T : PushInputBufferPush(t) /\ BufferOnly
    \/ \E t \in T, packet \in SamplePackets :
          (packet.isNull \/ PushBudget) /\ PushAudioPacket(t, packet) /\ BufferOnly
    \/ \E t \in T : PushAudioPacketFinish(t) /\ BufferOnly
    \/ \E t \in T, packet \in SamplePackets :
          (packet.isNull \/ PushBudget) /\ PushNetworkPacket(t, packet) /\ BufferOnly
    \/ \E t \in T : PushNetworkPacketFinish(t) /\ BufferOnly
    \/ \E t \in T : PopAudioPacket(t) /\ BufferOnly
    \/ \E t \in T : GetNextPlaybackPacket(t) /\ BufferOnly
    \/ \E t \in T : ClearBuffersInput(t) /\ BufferOnly
    \/ \E t \in T : ClearBuffersOutput(t) /\ BufferOnly
    \/ \E t \in T : ClearBuffersSeq(t) /\ BufferOnly
    \/ \E t \in T, maxSize \in 0..MaxCap : SetMaxBufferSize(t, maxSize) /\ BufferOnly

\* two threads calling concurrently
NextBuffer == BufferCalls(Threads)
SpecBuffer == InitBuffer /\ [][NextBuffer]_vars

\* two threads calling concurrently, no more than MaxContended frames
\* offered before the last push begins
ContendedBudget == pushed["in"] + pushed["out"] < MaxContended

NextContended ==
    \/ \E t \in Threads, input \in BufferInputs :
          PushInputBufferRejected(t, input) /\ BufferOnly
    \/ \E t \in Threads, input \in BufferInputs :
          ContendedBudget /\ PushInputBufferLoad(t, input) /\ BufferOnly
    \/ \E t \in Threads : PushInputBufferStore(t) /\ BufferOnly
    \/ \E t \in Threads : PushInputBufferPush(t) /\ BufferOnly
    \/ \E t \in Threads, packet \in SamplePackets :
          (packet.isNull \/ ContendedBudget) /\ PushAudioPacket(t, packet) /\ BufferOnly
    \/ \E t \in Threads : PushAudioPacketFinish(t) /\ BufferOnly
    \/ \E t \in Threads, packet \in SamplePackets :
          (packet.isNull \/ ContendedBudget) /\ PushNetworkPacket(t, packet) /\ BufferOnly
    \/ \E t \in Threads : PushNetworkPacketFinish(t) /\ BufferOnly
    \/ \E t \in Threads : PopAudioPacket(t) /\ BufferOnly
    \/ \E t \in Threads : GetNextPlaybackPacket(t) /\ BufferOnly
    \/ \E t \in Threads : ClearBuffersInput(t) /\ BufferOnly
    \/ \E t \in Threads : ClearBuffersOutput(t) /\ BufferOnly
    \/ \E t \in Threads : ClearBuffersSeq(t) /\ BufferOnly
    \/ \E t \in Threads, maxSize \in 0..MaxCap : SetMaxBufferSize(t, maxSize) /\ BufferOnly

SpecContended == InitBuffer /\ [][NextContended]_vars

\* the capture thread pushing into the input queue while the receive thread
\* pushes into the output queue, on a buffer whose capacity was set to 1 or
\* more before the first frame
DropBudget ==
    pushed["in"] + pushed["out"]
       + Cardinality({t \in Threads : pc[t] \in {"dropIn", "dropOut"}}) < MaxDropPushes

NextDropped ==
    \/ \E maxSize \in 1..MaxCap :
          /\ pushed["in"] + pushed["out"] = 0
          /\ SetMaxBufferSize("t1", maxSize) /\ BufferOnly
    \/ DropBudget /\ PushAudioPacket("t1", AudioPacket(<<7>>, 9)) /\ BufferOnly
    \/ PushAudioPacketFinish("t1") /\ BufferOnly
    \/ DropBudget /\ PushNetworkPacket("t2", AudioPacket(<<7>>, 9)) /\ BufferOnly
    \/ PushNetworkPacketFinish("t2") /\ BufferOnly

SpecDropped == InitBuffer /\ [][NextDropped]_vars

\* one thread calling, one operation after the other
NextSerial == BufferCalls({"t1"})
SpecSerial == InitBuffer /\ [][NextSerial]_vars

(***************************************************************************)
(* The burst scenario: the capacity is configured on the fresh buffer,     *)
(* frames are then pushed through pushInputBuffer by one thread with no    *)
(* pop in between, and the queue is popped afterwards.                     *)
(***************************************************************************)
BurstFresh == Quiescent /\ pushed["in"] = 0 /\ lastAssigned = -1

NextBurst ==
    \/ \E maxSize \in 0..MaxCap :
          BurstFresh /\ SetMaxBufferSize("t1", maxSize) /\ BufferOnly
    \/ \E input \in BufferInputs :
          /\ popped["in"] = 0 /\ pushed["in"] + 1 < MaxBurst
          /\ PushInputBufferLoad("t1", input)
          /\ BufferOnly
    \/ PushInputBufferStore("t1") /\ BufferOnly
    \/ PushInputBufferPush("t1") /\ BufferOnly
    \/ PushAudioPacketFinish("t1") /\ BufferOnly
    \/ pushed["in"] > 0 /\ PopAudioPacket("t1") /\ BufferOnly

SpecBurst == InitBuffer /\ [][NextBurst]_vars

(***************************************************************************)
(* The wire format of UDPManager.                                          *)
(***************************************************************************)
\* serializePacket writing the sequence number most significant byte first
serializePacketNetworkOrder(packet) ==
    IF packet.isNull THEN <<>>
    ELSE <<packet.sequenceNumber \div 16777216,
           (packet.sequenceNumber \div 65536) % 256,
           (packet.sequenceNumber \div 256) % 256,
           packet.sequenceNumber % 256>> \o packet.data

serializePacket(packet) ==
    IF packet.isNull THEN <<>>
    ELSE HostBytes32(packet.sequenceNumber) \o packet.data

\* deserializePacket without the length check, missing bytes read as zero
deserializePacketUnchecked(data) ==
    AudioPacket(SubSeq(data, 5, Len(data)),
                HostValue32(SubSeq(data \o <<0, 0, 0, 0>>, 1, 4)))

deserializePacket(data) ==
    IF Len(data) < 4 THEN NullPacket
    ELSE AudioPacket(SubSeq(data, 5, Len(data)), HostValue32(SubSeq(data, 1, 4)))

\* payloads of 0, 1, 2 and 1020 bytes
WirePayloads == {<<>>, <<7>>, <<0, 255>>, [i \in 1..1020 |-> i % 256]}
WireSequenceNumbers == {0, 1, 255, 256, 12345, 65536, 16777216, 2147483647}
WirePackets == {AudioPacket(d, n) : d \in WirePayloads, n \in WireSequenceNumbers}

\* datagrams as they arrive from the network: empty, shorter than the
\* sequence-number field, the field alone, the field and a payload
SampleDatagrams ==
    {<<>>, <<57, 48, 0>>, <<57, 48, 0, 0>>, <<1, 0, 0, 0, 7>>}

InitWire ==
    /\ hostLittleEndian \in BOOLEAN
    /\ InitBufferManager
    /\ InitCodec
    /\ InitUDPManager
    /\ InitPipeline
    /\ InitPlaybackWait
    /\ InitBitrateCalculator
    /\ InitAudioPreprocessor
    /\ wirePacket \in WirePackets
    /\ wireData = <<>>
    /\ wireOut = NullPacket
    /\ wireStage = "packet"

WireSerialize ==
    /\ wireStage = "packet"
    /\ wireData' = serializePacket(wirePacket)
    /\ wireStage' = "datagram"
    /\ UNCHANGED <<wirePacket, wireOut>>

\* a datagram that some other sender produced
WireArrive(datagram) ==
    /\ wireStage = "packet"
    /\ wirePacket' = NullPacket
    /\ wireData' = datagram
    /\ wireStage' = "datagram"
    /\ UNCHANGED wireOut

WireDeserialize ==
    /\ wireStage = "datagram"
    /\ wireOut' = deserializePacket(wireData)
    /\ wireStage' = "packet read"
    /\ UNCHANGED <<wirePacket, wireData>>

WireOnly ==
    UNCHANGED <<bufferSide, hostLittleEndian, prepSide, codecSide, udpSide, pipeSide,
                waitSide, calcSide>>

NextWire ==
    \/ WireSerialize /\ WireOnly
    \/ \E datagram \in SampleDatagrams : WireArrive(datagram) /\ WireOnly
    \/ WireDeserialize /\ WireOnly

SpecWire == InitWire /\ [][NextWire]_vars

(***************************************************************************)
(* UDPManager.  Addresses carry the port as the caller names it (htons on  *)
(* the way in, ntohs on the way out).                                      *)
(***************************************************************************)
\* the strings inet_pton accepts, and those handed to the transport
DottedQuads == {"10.0.0.2", "10.0.0.3"}
SampleIPs == {"10.0.0.2", "not an address"}
SamplePorts == {5000, 5001}
\* the hosts datagrams arrive from
SampleSources == {Addr("10.0.0.2", 5000), Addr("10.0.0.3", 5001)}
SendPackets == {NullPacket, AudioPacket(<<>>, 12345), AudioPacket(<<7>>, 1)}
\* what sendto reports: all bytes sent, fewer bytes sent, -1
SendOutcomes == {"sent", "partial", "error"}
\* arguments of sendData: no bytes, five bytes
SendBuffers == {<<>>, <<1, 0, 0, 0, 7>>}

\* inet_pton(AF_INET, ip, ...) > 0
inet_pton(ip) == ip \in DottedQuads

SetBufferManager ==
    /\ ~bufferManager_
    /\ bufferManager_' = TRUE
    /\ UNCHANGED <<socketFd_, isRunning_, isServer_, remoteAddr_, sentPackets_,
                   receivedPackets_, failedSends_, onPacketReceived_,
                   receiverThread_, stopping, rxBuffer, udpHistory>>
    /\ UNCHANGED setCall

SetOnPacketReceived ==
    /\ ~onPacketReceived_
    /\ onPacketReceived_' = TRUE
    /\ UNCHANGED <<socketFd_, isRunning_, isServer_, remoteAddr_, sentPackets_,
                   receivedPackets_, failedSends_, bufferManager_,
                   receiverThread_, stopping, rxBuffer, udpHistory>>
    /\ UNCHANGED setCall

\* startServer; socketOk and bindOk are what createSocket and bindSocket
\* return.  A call on a running transport returns false at once; a failed
\* call leaves the socket closed and changes nothing else.
StartServer(port, socketOk, bindOk) ==
    /\ ~stopping
    /\ IF isRunning_
       THEN /\ udpRet' = "false"
            /\ UNCHANGED <<socketFd_, isServer_, isRunning_, receiverThread_, peerRemote>>
       ELSE IF ~(socketOk /\ bindOk)
       THEN /\ udpRet' = "false"
            /\ socketFd_' = -1
            /\ UNCHANGED <<isServer_, isRunning_, receiverThread_, peerRemote>>
       ELSE /\ socketFd_' = 3
            /\ isServer_' = TRUE
            /\ isRunning_' = TRUE
            /\ receiverThread_' = "running"
            /\ peerRemote' = ZeroAddr
            /\ udpRet' = "true"
    /\ UNCHANGED <<remoteAddr_, sentPackets_, receivedPackets_, failedSends_,
                   bufferManager_, onPacketReceived_, stopping, rxBuffer,
                   datagramsRead, shortDatagrams, packetCallbacks, sentTo>>
    /\ UNCHANGED setCall

\* startClient: the port is stored before the address is parsed
StartClient(serverIP, port, socketOk) ==
    /\ ~stopping
    /\ IF isRunning_
       THEN /\ udpRet' = "false"
            /\ UNCHANGED <<remoteAddr_, socketFd_, isServer_, isRunning_,
                           receiverThread_, peerRemote>>
       ELSE IF ~socketOk
       THEN /\ udpRet' = "false"
            /\ socketFd_' = -1
            /\ UNCHANGED <<remoteAddr_, isServer_, isRunning_, receiverThread_,
                           peerRemote>>
       ELSE /\ IF inet_pton(serverIP)
               THEN /\ remoteAddr_' = Addr(serverIP, port)
                    /\ socketFd_' = 3
                    /\ isServer_' = FALSE
                    /\ isRunning_' = TRUE
                    /\ receiverThread_' = "running"
                    /\ udpRet' = "true"
               ELSE /\ remoteAddr_' = Addr(remoteAddr_.ip, port)
                    /\ socketFd_' = -1
                    /\ udpRet' = "false"
                    /\ UNCHANGED <<isServer_, isRunning_, receiverThread_>>
            /\ peerRemote' = ZeroAddr
    /\ UNCHANGED <<sentPackets_, receivedPackets_, failedSends_,
                   bufferManager_, onPacketReceived_, stopping, rxBuffer,
                   datagramsRead, shortDatagrams, packetCallbacks, sentTo>>
    /\ UNCHANGED setCall

\* setRemoteAddress: the port is stored before the address is parsed
SetRemoteAddress(ip, port) ==
    /\ ~stopping
    /\ IF ~isRunning_
       THEN udpRet' = "false" /\ UNCHANGED <<remoteAddr_, peerRemote>>
       ELSE IF inet_pton(ip)
       THEN /\ remoteAddr_' = Addr(ip, port)
            /\ peerRemote' = IF isServer_ THEN Addr(ip, port) ELSE peerRemote
            /\ udpRet' = "true"
       ELSE /\ remoteAddr_' = Addr(remoteAddr_.ip, port)
            /\ peerRemote' = ZeroAddr
            /\ udpRet' = "false"
    /\ UNCHANGED <<socketFd_, isRunning_, isServer_, sentPackets_, receivedPackets_,
                   failedSends_, bufferManager_, onPacketReceived_,
                   receiverThread_, stopping, rxBuffer,
                   datagramsRead, shortDatagrams, packetCallbacks, sentTo>>
    /\ UNCHANGED setCall

\* setRemoteAddress, its first statements: the check of isRunning_ and the
\* stores to sin_family and sin_port
SetRemoteAddressPort(ip, port) ==
    /\ ~stopping
    /\ setCall.pc = "idle"
    /\ IF ~isRunning_
       THEN udpRet' = "false" /\ UNCHANGED <<remoteAddr_, setCall>>
       ELSE /\ remoteAddr_' = Addr(remoteAddr_.ip, port)
            /\ setCall' = [pc |-> "inet_pton", ip |-> ip]
            /\ UNCHANGED udpRet
    /\ UNCHANGED <<socketFd_, isRunning_, isServer_, sentPackets_, receivedPackets_,
                   failedSends_, bufferManager_, onPacketReceived_,
                   receiverThread_, stopping, rxBuffer,
                   datagramsRead, shortDatagrams, packetCallbacks, sentTo, peerRemote>>

\* setRemoteAddress, the rest: inet_pton stores sin_addr, or fails
SetRemoteAddressParse ==
    /\ setCall.pc = "inet_pton"
    /\ setCall' = NoSetCall
    /\ IF inet_pton(setCall.ip)
       THEN /\ remoteAddr_' = Addr(setCall.ip, remoteAddr_.port)
            /\ peerRemote' = IF isServer_ THEN Addr(setCall.ip, remoteAddr_.port)
                                          ELSE peerRemote
            /\ udpRet' = "true"
       ELSE /\ peerRemote' = ZeroAddr
            /\ udpRet' = "false"
            /\ UNCHANGED remoteAddr_
    /\ UNCHANGED <<socketFd_, isRunning_, isServer_, sentPackets_, receivedPackets_,
                   failedSends_, bufferManager_, onPacketReceived_,
                   receiverThread_, stopping, rxBuffer,
                   datagramsRead, shortDatagrams, packetCallbacks, sentTo>>

\* stop, up to the join
Stop ==
    /\ ~stopping
    /\ isRunning_
    /\ isRunning_' = FALSE
    /\ socketFd_' = -1
    /\ stopping' = TRUE
    /\ UNCHANGED <<isServer_, remoteAddr_, sentPackets_, receivedPackets_, failedSends_,
                   bufferManager_, onPacketReceived_, receiverThread_,
                   rxBuffer, udpHistory>>
    /\ UNCHANGED setCall

\* stop, the join returning
StopJoined ==
    /\ stopping
    /\ receiverThread_ = "finished"
    /\ receiverThread_' = "none"
    /\ stopping' = FALSE
    /\ UNCHANGED <<socketFd_, isRunning_, isServer_, remoteAddr_, sentPackets_,
                   receivedPackets_, failedSends_, bufferManager_, onPacketReceived_,
                   rxBuffer, udpHistory>>
    /\ UNCHANGED setCall

\* sendData that counts a partial send as sent
SendDataPartialSent(data, outcome) ==
    /\ IF data = <<>> \/ ~isRunning_ \/ socketFd_ < 0
       THEN /\ udpRet' = "false"
            /\ UNCHANGED <<sentTo, sentPackets_, failedSends_>>
       ELSE /\ sentTo' = remoteAddr_
            /\ IF outcome \in {"sent", "partial"}
               THEN /\ sentPackets_' = sentPackets_ + 1 /\ udpRet' = "true"
                    /\ UNCHANGED failedSends_
               ELSE /\ failedSends_' = failedSends_ + 1 /\ udpRet' = "false"
                    /\ UNCHANGED sentPackets_
    /\ UNCHANGED <<socketFd_, isRunning_, isServer_, remoteAddr_, receivedPackets_,
                   bufferManager_, onPacketReceived_, receiverThread_,
                   stopping, rxBuffer,
                   datagramsRead, shortDatagrams, packetCallbacks, peerRemote>>
    /\ UNCHANGED setCall

\* sendData: one sendto; outcome is what it returns (all bytes, fewer
\* bytes, or -1).  A call that returns before sendto changes nothing.
SendData(data, outcome) ==
    /\ IF data = <<>> \/ ~isRunning_ \/ socketFd_ < 0
       THEN /\ udpRet' = "false"
            /\ UNCHANGED <<sentTo, sentPackets_, failedSends_>>
       ELSE /\ sentTo' = remoteAddr_
            /\ IF outcome = "sent"
               THEN /\ sentPackets_' = sentPackets_ + 1 /\ udpRet' = "true"
                    /\ UNCHANGED failedSends_
               ELSE /\ failedSends_' = failedSends_ + 1 /\ udpRet' = "false"
                    /\ UNCHANGED sentPackets_
    /\ UNCHANGED <<socketFd_, isRunning_, isServer_, remoteAddr_, receivedPackets_,
                   bufferManager_, onPacketReceived_, receiverThread_,
                   stopping, rxBuffer,
                   datagramsRead, shortDatagrams, packetCallbacks, peerRemote>>
    /\ UNCHANGED setCall

\* sendAudioPacket and the sendData it calls
SendAudioPacket(packet, outcome) ==
    IF packet.isNull \/ ~isRunning_
    THEN /\ udpRet' = "false"
         /\ UNCHANGED <<udpVars, datagramsRead, shortDatagrams, packetCallbacks,
                        sentTo, peerRemote, setCall>>
    ELSE SendData(serializePacket(packet), outcome)

\* pushNetworkPacket as the receiver thread runs it, from lock to unlock
PushNetworkPacketWhole(packet) ==
    /\ IF isBufferFull(outputBuffer_)
       THEN /\ outputBuffer_' = Append(removeOldPackets(outputBuffer_), packet)
            /\ droppedPackets_' = droppedPackets_ + 1
            /\ evicted' = IF outputBuffer_ # <<>> THEN evicted + 1 ELSE evicted
       ELSE /\ outputBuffer_' = Append(outputBuffer_, packet)
            /\ UNCHANGED <<droppedPackets_, evicted>>
    /\ pushed' = [pushed EXCEPT !["out"] = @ + 1]
    /\ UNCHANGED <<inputBuffer_, maxBufferSize_, nextSequenceNumber_, totalPackets_,
                   callerVars, popped, lastAssigned>>

\* receiverLoop finds isRunning_ true and calls recvfrom on the open socket
ReceiverLoopRecvfrom ==
    /\ receiverThread_ = "running" /\ isRunning_ /\ socketFd_ >= 0
    /\ receiverThread_' = "blocked"
    /\ UNCHANGED <<socketFd_, isRunning_, isServer_, remoteAddr_, sentPackets_,
                   receivedPackets_, failedSends_, bufferManager_, onPacketReceived_,
                   stopping, rxBuffer, udpHistory>>
    /\ UNCHANGED setCall

\* recvfrom returns a datagram, and the rest of that turn of receiverLoop
\* with processReceivedData.  A call that was entered before the socket was
\* closed still returns the datagrams that arrive.
ReceiverLoopIteration(datagram, fromAddr) ==
    /\ receiverThread_ = "blocked"
    /\ receiverThread_' = "running"
    /\ rxBuffer' = datagram
    /\ datagramsRead' = datagramsRead + 1
    /\ shortDatagrams' = IF Len(datagram) < 4 THEN shortDatagrams + 1 ELSE shortDatagrams
    /\ IF Len(datagram) > 0
       THEN LET packet == deserializePacket(datagram)
            IN  /\ remoteAddr_' = IF isServer_ THEN fromAddr ELSE remoteAddr_
                /\ IF ~packet.isNull /\ bufferManager_
                   THEN PushNetworkPacketWhole(packet)
                   ELSE UNCHANGED bufferSide
                /\ packetCallbacks' = IF ~packet.isNull /\ onPacketReceived_
                                      THEN packetCallbacks + 1 ELSE packetCallbacks
                /\ receivedPackets_' = receivedPackets_ + 1
       ELSE UNCHANGED <<remoteAddr_, bufferSide, packetCallbacks,
                        receivedPackets_>>
    /\ UNCHANGED <<socketFd_, isRunning_, isServer_, sentPackets_, failedSends_,
                   bufferManager_, onPacketReceived_,
                   stopping, sentTo, peerRemote, udpRet>>
    /\ UNCHANGED setCall

\* receiverLoop left between two calls: isRunning_ is found false, or
\* recvfrom is called on the closed socket and returns -1 at once
ReceiverLoopExit ==
    /\ receiverThread_ = "running"
    /\ ~isRunning_ \/ socketFd_ < 0
    /\ receiverThread_' = "finished"
    /\ UNCHANGED <<socketFd_, isRunning_, isServer_, remoteAddr_, sentPackets_,
                   receivedPackets_, failedSends_, bufferManager_, onPacketReceived_,
                   stopping, rxBuffer, udpHistory>>
    /\ UNCHANGED setCall

\* receiverLoop left from inside recvfrom: the call returns -1, on an error
\* of the socket or, where the platform does so, because the descriptor
\* was closed under it
ReceiverLoopError ==
    /\ receiverThread_ = "blocked"
    /\ receiverThread_' = "finished"
    /\ UNCHANGED <<socketFd_, isRunning_, isServer_, remoteAddr_, sentPackets_,
                   receivedPackets_, failedSends_, bufferManager_, onPacketReceived_,
                   stopping, rxBuffer, udpHistory>>
    /\ UNCHANGED setCall

\* all but the receiver leave the buffers alone
UDPOnly ==
    UNCHANGED <<hostLittleEndian, prepSide, codecSide, wireSide, pipeSide,
                waitSide, calcSide>>

NextUDP ==
    \/ SetBufferManager /\ UDPOnly /\ UNCHANGED bufferSide
    \/ SetOnPacketReceived /\ UDPOnly /\ UNCHANGED bufferSide
    \/ \E port \in SamplePorts, socketOk \in BOOLEAN, bindOk \in BOOLEAN :
          StartServer(port, socketOk, bindOk) /\ UDPOnly /\ UNCHANGED bufferSide
    \/ \E serverIP \in SampleIPs, port \in SamplePorts, socketOk \in BOOLEAN :
          StartClient(serverIP, port, socketOk) /\ UDPOnly /\ UNCHANGED bufferSide
    \/ \E ip \in SampleIPs, port \in SamplePorts :
          SetRemoteAddress(ip, port) /\ UDPOnly /\ UNCHANGED bufferSide
    \/ Stop /\ UDPOnly /\ UNCHANGED bufferSide
    \/ StopJoined /\ UDPOnly /\ UNCHANGED bufferSide
    \/ \E packet \in SendPackets, outcome \in SendOutcomes :
          /\ sentPackets_ + failedSends_ < MaxSends
          /\ SendAudioPacket(packet, outcome) /\ UDPOnly /\ UNCHANGED bufferSide
    \/ \E data \in SendBuffers, outcome \in SendOutcomes :
          /\ sentPackets_ + failedSends_ < MaxSends
          /\ SendData(data, outcome) /\ UDPOnly /\ UNCHANGED bufferSide
    \/ \E datagram \in SampleDatagrams, fromAddr \in SampleSources :
          /\ datagramsRead < MaxDatagrams
          /\ ReceiverLoopIteration(datagram, fromAddr) /\ UDPOnly
    \/ ReceiverLoopRecvfrom /\ UDPOnly /\ UNCHANGED bufferSide
    \/ ReceiverLoopExit /\ UDPOnly /\ UNCHANGED bufferSide
    \/ ReceiverLoopError /\ UDPOnly /\ UNCHANGED bufferSide

SpecUDP == Init /\ [][NextUDP]_vars

(***************************************************************************)
(* The sending side of the transport: started as server or client,         *)
(* stopped and started again, with sendAudioPacket and sendData called in  *)
(* every state of it and every outcome of sendto.                          *)
(***************************************************************************)
NextSend ==
    \/ \E port \in SamplePorts, ok \in BOOLEAN :
          StartServer(port, ok, ok) /\ UDPOnly /\ UNCHANGED bufferSide
    \/ \E serverIP \in SampleIPs, port \in SamplePorts :
          StartClient(serverIP, port, TRUE) /\ UDPOnly /\ UNCHANGED bufferSide
    \/ Stop /\ UDPOnly /\ UNCHANGED bufferSide
    \/ StopJoined /\ UDPOnly /\ UNCHANGED bufferSide
    \/ ReceiverLoopRecvfrom /\ UDPOnly /\ UNCHANGED bufferSide
    \/ ReceiverLoopExit /\ UDPOnly /\ UNCHANGED bufferSide
    \/ ReceiverLoopError /\ UDPOnly /\ UNCHANGED bufferSide
    \/ \E packet \in SendPackets, outcome \in SendOutcomes :
          /\ sentPackets_ + failedSends_ < MaxSendtos
          /\ SendAudioPacket(packet, outcome) /\ UDPOnly /\ UNCHANGED bufferSide
    \/ \E data \in SendBuffers, outcome \in SendOutcomes :
          /\ sentPackets_ + failedSends_ < MaxSendtos
          /\ SendData(data, outcome) /\ UDPOnly /\ UNCHANGED bufferSide

SpecSend == Init /\ [][NextSend]_vars

(***************************************************************************)
(* The transport from start to stop, with the receiver thread scheduled    *)
(* fairly.  Nothing obliges a datagram to arrive or recvfrom to fail, so   *)
(* those two steps carry no fairness.                                      *)
(***************************************************************************)
NextStop ==
    \/ SetBufferManager /\ UDPOnly /\ UNCHANGED bufferSide
    \/ \E port \in SamplePorts : StartServer(port, TRUE, TRUE) /\ UDPOnly /\ UNCHANGED bufferSide
    \/ Stop /\ UDPOnly /\ UNCHANGED bufferSide
    \/ StopJoined /\ UDPOnly /\ UNCHANGED bufferSide
    \/ \E datagram \in SampleDatagrams, fromAddr \in SampleSources :
          /\ datagramsRead < MaxDatagrams
          /\ ReceiverLoopIteration(datagram, fromAddr) /\ UDPOnly
    \/ ReceiverLoopRecvfrom /\ UDPOnly /\ UNCHANGED bufferSide
    \/ ReceiverLoopExit /\ UDPOnly /\ UNCHANGED bufferSide
    \/ ReceiverLoopError /\ UDPOnly /\ UNCHANGED bufferSide

SpecStop ==
    /\ Init /\ [][NextStop]_vars
    /\ WF_vars(StopJoined /\ UDPOnly /\ UNCHANGED bufferSide)
    /\ WF_vars(ReceiverLoopRecvfrom /\ UDPOnly /\ UNCHANGED bufferSide)
    /\ WF_vars(ReceiverLoopExit /\ UDPOnly /\ UNCHANGED bufferSide)

(***************************************************************************)
(* The send target while it is being set: a transport started as client or *)
(* server, setRemoteAddress running statement by statement on one thread,  *)
(* sendData on another, the receiver on a third.  Every address handed to  *)
(* startClient and setRemoteAddress, and every source of a datagram, is    *)
(* one of SampleSources.                                                   *)
(***************************************************************************)
NextRemote ==
    \/ \E port \in SamplePorts : StartServer(port, TRUE, TRUE) /\ UDPOnly /\ UNCHANGED bufferSide
    \/ \E a \in SampleSources : StartClient(a.ip, a.port, TRUE) /\ UDPOnly /\ UNCHANGED bufferSide
    \/ \E a \in SampleSources :
          SetRemoteAddressPort(a.ip, a.port) /\ UDPOnly /\ UNCHANGED bufferSide
    \/ SetRemoteAddressParse /\ UDPOnly /\ UNCHANGED bufferSide
    \/ \E data \in SendBuffers, outcome \in SendOutcomes :
          /\ sentPackets_ + failedSends_ < MaxSendtos
          /\ SendData(data, outcome) /\ UDPOnly /\ UNCHANGED bufferSide
    \/ \E datagram \in SampleDatagrams, fromAddr \in SampleSources :
          /\ datagramsRead < MaxDatagrams
          /\ ReceiverLoopIteration(datagram, fromAddr) /\ UDPOnly
    \/ ReceiverLoopRecvfrom /\ UDPOnly /\ UNCHANGED bufferSide

SpecRemote == Init /\ [][NextRemote]_vars

(***************************************************************************)
(* setRemoteAddress called with addresses that parse and that do not, on a *)
(* transport before its start, while it runs and after its stop.           *)
(***************************************************************************)
NextSetRemote ==
    \/ \E port \in SamplePorts : StartServer(port, TRUE, TRUE) /\ UDPOnly /\ UNCHANGED bufferSide
    \/ \E a \in SampleSources : StartClient(a.ip, a.port, TRUE) /\ UDPOnly /\ UNCHANGED bufferSide
    \/ \E ip \in SampleIPs, port \in SamplePorts :
          SetRemoteAddress(ip, port) /\ UDPOnly /\ UNCHANGED bufferSide
    \/ \E data \in SendBuffers, outcome \in SendOutcomes :
          /\ sentPackets_ + failedSends_ < MaxSendtos
          /\ SendData(data, outcome) /\ UDPOnly /\ UNCHANGED bufferSide
    \/ Stop /\ UDPOnly /\ UNCHANGED bufferSide
    \/ StopJoined /\ UDPOnly /\ UNCHANGED bufferSide
    \/ ReceiverLoopExit /\ UDPOnly /\ UNCHANGED bufferSide

SpecSetRemote == Init /\ [][NextSetRemote]_vars

Min(a, b) == IF a <= b THEN a ELSE b
Max(a, b) == IF a >= b THEN a ELSE b

(***************************************************************************)
(* The running program: main(), the signal handler, the capture and the    *)
(* playback worker, the statistics thread and the transport's receiver.    *)
(* ctl["main"] is where main() stands, ctl["signal"] where the handler     *)
(* stands; the handler runs on the thread the signal was delivered to,     *)
(* which does nothing else until the handler returns.                      *)
(***************************************************************************)
PeriodBytes == FRAMES_PER_BUFFER * CHANNELS * (BITS_PER_SAMPLE \div 8)

\* silenceBuffer_ as the constructor fills it
silenceBuffer_ == [i \in 1..PeriodBytes |-> 0]

\* a period as snd_pcm_readi fills captureBuffer_
CapturedPeriod == [i \in 1..PeriodBytes |-> 1]

PcmOutcomes == {"written", "underrun", "error"}

SignalThreads == {"main", "capture", "playback", "receiver", "stats"}

Live == exitStatus = "running"

Alive(h) ==
    CASE h = "main" -> TRUE
      [] h = "capture" -> captureThread_ \in {"running", "holding"}
      [] h = "playback" -> playbackThread_ \in {"running", "fetched"}
      [] h = "receiver" -> receiverThread_ \in {"running", "blocked"}
      [] h = "stats" -> statsThread = "running"

Suspended(h) == sigThread = h /\ ctl["signal"] \notin {"none", "done"}

CallerThread(c) == IF c = "main" THEN "main" ELSE sigThread

CanRun(c) == Live /\ ctl[c] # "none" /\ (c = "main" => ~Suspended("main"))

Goto(c, where) == ctl' = [ctl EXCEPT ![c] = where]

\* what follows the three stop() calls: clearBuffers in shutdownSystem, the
\* return of the handler
AfterStops(c) == IF c = "main" THEN "clear" ELSE "done"

\* pushInputBuffer as the capture thread runs it, from the numbering to the
\* unlock
PushInputBufferWhole(bytes) ==
    /\ nextSequenceNumber_' = nextSequenceNumber_ + 1
    /\ lastAssigned' = nextSequenceNumber_
    /\ IF isBufferFull(inputBuffer_)
       THEN /\ inputBuffer_' = Append(removeOldPackets(inputBuffer_),
                                      AudioPacket(bytes, nextSequenceNumber_))
            /\ droppedPackets_' = droppedPackets_ + 1
            /\ evicted' = IF inputBuffer_ # <<>> THEN evicted + 1 ELSE evicted
       ELSE /\ inputBuffer_' = Append(inputBuffer_,
                                      AudioPacket(bytes, nextSequenceNumber_))
            /\ UNCHANGED <<droppedPackets_, evicted>>
    /\ totalPackets_' = totalPackets_ + 1
    /\ pushed' = [pushed EXCEPT !["in"] = @ + 1]
    /\ UNCHANGED <<outputBuffer_, maxBufferSize_, callerVars, popped>>

\* initializeSystem: the objects are made and wired, capture and playback
\* are started; any failure makes main() return 1
InitializeSystem(ok) ==
    /\ CanRun("main") /\ ctl["main"] = "start"
    /\ IF ok
       THEN /\ SetBufferManager
            /\ isCapturing_' = TRUE /\ captureThread_' = "running"
            /\ isPlaying_' = TRUE /\ playbackThread_' = "running"
            /\ Goto("main", "network")
            /\ UNCHANGED exitStatus
       ELSE /\ exitStatus' = "1"
            /\ UNCHANGED <<udpSide, isCapturing_, captureThread_, isPlaying_,
                           playbackThread_, ctl>>
    /\ UNCHANGED <<g_running, sigThread, mainReturn, statsThread,
                   capturedFrames_, bufferOverruns_, playedFrames_, bufferUnderruns_,
                   pcmWritten, pcmWrites, bufferSide, hostLittleEndian, prepSide,
                   codecSide, wireSide, waitSide, calcSide>>

\* main(): the transport is started in the mode the command line selects;
\* on success the statistics thread is started, on failure shutdownSystem
\* runs and main() returns 1
MainStartNetwork(mode, ip, port, ok) ==
    /\ CanRun("main") /\ ctl["main"] = "network"
    /\ IF ~ok
       THEN /\ mainReturn' = 1 /\ Goto("main", "stopCapture")
            /\ UNCHANGED <<udpSide, statsThread>>
       ELSE IF mode = "client"
       THEN /\ StartClient(ip, port, TRUE)
            /\ IF inet_pton(ip)
               THEN /\ statsThread' = "running" /\ Goto("main", "run")
                    /\ UNCHANGED mainReturn
               ELSE /\ mainReturn' = 1 /\ Goto("main", "stopCapture")
                    /\ UNCHANGED statsThread
       ELSE /\ StartServer(port, TRUE, TRUE)
            /\ IF mode = "peer"
               THEN Goto("main", "setRemote") /\ UNCHANGED statsThread
               ELSE statsThread' = "running" /\ Goto("main", "run")
            /\ UNCHANGED mainReturn
    /\ UNCHANGED <<g_running, sigThread, exitStatus, isCapturing_,
                   captureThread_, capturedFrames_, bufferOverruns_, isPlaying_,
                   playbackThread_, playedFrames_, bufferUnderruns_,
                   pcmWritten, pcmWrites, bufferSide, hostLittleEndian, prepSide,
                   codecSide, wireSide, waitSide, calcSide>>

\* main(), peer-to-peer mode: setRemoteAddress after startServer
MainSetRemote(ip, port) ==
    /\ CanRun("main") /\ ctl["main"] = "setRemote"
    /\ SetRemoteAddress(ip, port)
    /\ IF inet_pton(ip)
       THEN /\ statsThread' = "running" /\ Goto("main", "run")
            /\ UNCHANGED mainReturn
       ELSE /\ mainReturn' = 1 /\ Goto("main", "stopCapture")
            /\ UNCHANGED statsThread
    /\ UNCHANGED <<g_running, sigThread, exitStatus, isCapturing_,
                   captureThread_, capturedFrames_, bufferOverruns_, isPlaying_,
                   playbackThread_, playedFrames_, bufferUnderruns_,
                   pcmWritten, pcmWrites, bufferSide, hostLittleEndian, prepSide,
                   codecSide, wireSide, waitSide, calcSide>>

\* main(): while (g_running) sleep
MainLoopExit ==
    /\ CanRun("main") /\ ctl["main"] = "run"
    /\ ~g_running
    /\ Goto("main", "joinStats")
    /\ UNCHANGED <<g_running, sigThread, mainReturn, exitStatus, statsThread,
                   isCapturing_, captureThread_, capturedFrames_, bufferOverruns_, isPlaying_,
                   playbackThread_, playedFrames_, bufferUnderruns_,
                   pcmWritten, pcmWrites, udpSide, bufferSide,
                   hostLittleEndian, prepSide, codecSide, wireSide, waitSide, calcSide>>

\* main(): statsThread.join()
MainJoinStats ==
    /\ CanRun("main") /\ ctl["main"] = "joinStats"
    /\ statsThread = "finished"
    /\ statsThread' = "none"
    /\ Goto("main", "stopCapture")
    /\ UNCHANGED <<g_running, sigThread, mainReturn, exitStatus, isCapturing_,
                   captureThread_, capturedFrames_, bufferOverruns_, isPlaying_,
                   playbackThread_, playedFrames_, bufferUnderruns_,
                   pcmWritten, pcmWrites, udpSide, bufferSide,
                   hostLittleEndian, prepSide, codecSide, wireSide, waitSide, calcSide>>

\* printStatistics: the loop ends once g_running is false
StatsExit ==
    /\ Live /\ ~Suspended("stats")
    /\ statsThread = "running"
    /\ ~g_running
    /\ statsThread' = "finished"
    /\ UNCHANGED <<g_running, ctl, sigThread, mainReturn, exitStatus,
                   isCapturing_, captureThread_, capturedFrames_, bufferOverruns_, isPlaying_,
                   playbackThread_, playedFrames_, bufferUnderruns_,
                   pcmWritten, pcmWrites, udpSide, bufferSide,
                   hostLittleEndian, prepSide, codecSide, wireSide, waitSide, calcSide>>

\* SIGINT or SIGTERM is delivered to thread h while main() waits in its run
\* loop; h enters signalHandler and stores g_running = false
SignalArrives(h) ==
    /\ Live /\ ctl["signal"] = "none"
    /\ ctl["main"] = "run"
    /\ Alive(h)
    /\ sigThread' = h
    /\ g_running' = FALSE
    /\ Goto("signal", "stopCapture")
    /\ UNCHANGED <<mainReturn, exitStatus, statsThread, isCapturing_,
                   captureThread_, capturedFrames_, bufferOverruns_, isPlaying_,
                   playbackThread_, playedFrames_, bufferUnderruns_,
                   pcmWritten, pcmWrites, udpSide, bufferSide,
                   hostLittleEndian, prepSide, codecSide, wireSide, waitSide, calcSide>>

\* AudioCapture::stop up to the join, called by main() or by the handler
CaptureStop(c) ==
    /\ CanRun(c) /\ ctl[c] = "stopCapture"
    /\ IF isCapturing_
       THEN isCapturing_' = FALSE /\ Goto(c, "joinCapture")
       ELSE UNCHANGED isCapturing_ /\ Goto(c, "stopPlayer")
    /\ UNCHANGED <<g_running, sigThread, mainReturn, exitStatus, statsThread,
                   captureThread_, capturedFrames_, bufferOverruns_, isPlaying_,
                   playbackThread_, playedFrames_, bufferUnderruns_,
                   pcmWritten, pcmWrites, udpSide, bufferSide,
                   hostLittleEndian, prepSide, codecSide, wireSide, waitSide, calcSide>>

\* AudioCapture::stop, the join: a thread that joins itself gets
\* resource_deadlock_would_occur, which nothing catches
CaptureJoin(c) ==
    /\ CanRun(c) /\ ctl[c] = "joinCapture"
    /\ IF CallerThread(c) = "capture"
       THEN exitStatus' = "aborted" /\ UNCHANGED <<ctl, captureThread_>>
       ELSE /\ captureThread_ = "finished"
            /\ captureThread_' = "none"
            /\ Goto(c, "stopPlayer")
            /\ UNCHANGED exitStatus
    /\ UNCHANGED <<g_running, sigThread, mainReturn, statsThread, isCapturing_,
                   capturedFrames_, bufferOverruns_, isPlaying_, playbackThread_, playedFrames_,
                   bufferUnderruns_, pcmWritten, pcmWrites, udpSide,
                   bufferSide, hostLittleEndian, prepSide, codecSide, wireSide, waitSide,
                   calcSide>>

\* AudioPlayer::stop up to the join
PlayerStop(c) ==
    /\ CanRun(c) /\ ctl[c] = "stopPlayer"
    /\ IF isPlaying_
       THEN isPlaying_' = FALSE /\ Goto(c, "joinPlayer")
       ELSE UNCHANGED isPlaying_ /\ Goto(c, "stopUdp")
    /\ UNCHANGED <<g_running, sigThread, mainReturn, exitStatus, statsThread,
                   isCapturing_, captureThread_, capturedFrames_, bufferOverruns_,
                   playbackThread_, playedFrames_, bufferUnderruns_,
                   pcmWritten, pcmWrites, udpSide, bufferSide,
                   hostLittleEndian, prepSide, codecSide, wireSide, waitSide, calcSide>>

\* AudioPlayer::stop, the join
PlayerJoin(c) ==
    /\ CanRun(c) /\ ctl[c] = "joinPlayer"
    /\ IF CallerThread(c) = "playback"
       THEN exitStatus' = "aborted" /\ UNCHANGED <<ctl, playbackThread_>>
       ELSE /\ playbackThread_ = "finished"
            /\ playbackThread_' = "none"
            /\ Goto(c, "stopUdp")
            /\ UNCHANGED exitStatus
    /\ UNCHANGED <<g_running, sigThread, mainReturn, statsThread, isCapturing_,
                   captureThread_, capturedFrames_, bufferOverruns_, isPlaying_, playedFrames_,
                   bufferUnderruns_, pcmWritten, pcmWrites, udpSide,
                   bufferSide, hostLittleEndian, prepSide, codecSide, wireSide, waitSide,
                   calcSide>>

\* UDPManager::stop up to the join
TransportStop(c) ==
    /\ CanRun(c) /\ ctl[c] = "stopUdp"
    /\ IF isRunning_
       THEN Stop /\ Goto(c, "joinUdp")
       ELSE UNCHANGED udpSide /\ Goto(c, AfterStops(c))
    /\ UNCHANGED <<g_running, sigThread, mainReturn, exitStatus, statsThread,
                   isCapturing_, captureThread_, capturedFrames_, bufferOverruns_, isPlaying_,
                   playbackThread_, playedFrames_, bufferUnderruns_,
                   pcmWritten, pcmWrites, bufferSide, hostLittleEndian, prepSide,
                   codecSide, wireSide, waitSide, calcSide>>

\* UDPManager::stop, the join
TransportJoin(c) ==
    /\ CanRun(c) /\ ctl[c] = "joinUdp"
    /\ IF CallerThread(c) = "receiver"
       THEN exitStatus' = "aborted" /\ UNCHANGED <<ctl, udpSide>>
       ELSE /\ StopJoined
            /\ Goto(c, AfterStops(c))
            /\ UNCHANGED exitStatus
    /\ UNCHANGED <<g_running, sigThread, mainReturn, statsThread, isCapturing_,
                   captureThread_, capturedFrames_, bufferOverruns_, isPlaying_,
                   playbackThread_, playedFrames_, bufferUnderruns_,
                   pcmWritten, pcmWrites, bufferSide, hostLittleEndian, prepSide,
                   codecSide, wireSide, waitSide, calcSide>>

\* shutdownSystem: clearBuffers, one queue after the other
MainClearBuffers ==
    /\ CanRun("main") /\ ctl["main"] = "clear"
    /\ \/ ClearBuffersInput("t1") /\ UNCHANGED ctl
       \/ ClearBuffersOutput("t1") /\ UNCHANGED ctl
       \/ ClearBuffersSeq("t1") /\ Goto("main", "return")
    /\ UNCHANGED <<g_running, sigThread, mainReturn, exitStatus, statsThread,
                   isCapturing_, captureThread_, capturedFrames_, bufferOverruns_, isPlaying_,
                   playbackThread_, playedFrames_, bufferUnderruns_,
                   pcmWritten, pcmWrites, udpSide, hostLittleEndian, prepSide, codecSide,
                   wireSide, waitSide, calcSide>>

\* main() returns and the globals are destroyed: the destructor of a
\* std::thread that is still joinable calls std::terminate
MainReturn ==
    /\ CanRun("main") /\ ctl["main"] = "return"
    /\ exitStatus' =
          IF \/ captureThread_ # "none"
             \/ playbackThread_ # "none"
             \/ receiverThread_ # "none"
          THEN "aborted"
          ELSE IF mainReturn = 0 THEN "0" ELSE "1"
    /\ UNCHANGED <<g_running, ctl, sigThread, mainReturn, statsThread,
                   isCapturing_, captureThread_, capturedFrames_, bufferOverruns_, isPlaying_,
                   playbackThread_, playedFrames_, bufferUnderruns_,
                   pcmWritten, pcmWrites, udpSide, bufferSide,
                   hostLittleEndian, prepSide, codecSide, wireSide, waitSide, calcSide>>

\* what snd_pcm_readi can return: a period, -EPIPE followed by a successful or
\* a failed snd_pcm_prepare, any other error
ReadOutcomes == {"read", "overrun", "overrun_unprepared", "error"}

\* captureLoop: one readAudioData up to the return of snd_pcm_readi.  A period
\* is held for processAudioData; -EPIPE counts an overrun and prepares the
\* device again; a failed prepare and every other error make readAudioData
\* return false, and captureLoop then sleeps for 10 ms
CaptureRead(outcome) ==
    /\ Live /\ ~Suspended("capture")
    /\ captureThread_ = "running"
    /\ isCapturing_
    /\ capturedFrames_ < MaxCaptured * FRAMES_PER_BUFFER
    /\ outcome \in {"overrun", "overrun_unprepared"} => bufferOverruns_ < MaxOverruns
    /\ bufferOverruns_' = IF outcome \in {"overrun", "overrun_unprepared"}
                          THEN bufferOverruns_ + 1
                          ELSE bufferOverruns_
    /\ captureThread_' = CASE outcome = "read" -> "holding"
                          [] outcome = "overrun" -> "running"
                          [] OTHER -> "sleeping"
    /\ UNCHANGED <<g_running, ctl, sigThread, mainReturn, exitStatus,
                   statsThread, isCapturing_, capturedFrames_, isPlaying_,
                   playbackThread_, playedFrames_, bufferUnderruns_,
                   pcmWritten, pcmWrites, udpSide, bufferSide,
                   hostLittleEndian, prepSide, codecSide, wireSide, waitSide, calcSide>>

\* captureLoop: the 10 ms sleep after a failed readAudioData is over
CaptureWake ==
    /\ Live /\ ~Suspended("capture")
    /\ captureThread_ = "sleeping"
    /\ captureThread_' = "running"
    /\ UNCHANGED <<g_running, ctl, sigThread, mainReturn, exitStatus,
                   statsThread, isCapturing_, capturedFrames_, bufferOverruns_,
                   isPlaying_, playbackThread_, playedFrames_, bufferUnderruns_,
                   pcmWritten, pcmWrites, udpSide, bufferSide,
                   hostLittleEndian, prepSide, codecSide, wireSide, waitSide, calcSide>>

\* processAudioData: the period goes to pushInputBuffer (gain_ is 1.0 and no
\* onAudioCaptured_ callback is set), then capturedFrames_ is advanced
CapturePush ==
    /\ Live /\ ~Suspended("capture")
    /\ captureThread_ = "holding"
    /\ PushInputBufferWhole(CapturedPeriod)
    /\ capturedFrames_' = capturedFrames_ + FRAMES_PER_BUFFER
    /\ captureThread_' = "running"
    /\ UNCHANGED <<g_running, ctl, sigThread, mainReturn, exitStatus,
                   statsThread, isCapturing_, bufferOverruns_, isPlaying_, playbackThread_,
                   playedFrames_, bufferUnderruns_, pcmWritten, pcmWrites,
                   udpSide, hostLittleEndian, prepSide, codecSide, wireSide, waitSide,
                   calcSide>>

\* captureLoop: while (isCapturing_) fails
CaptureExit ==
    /\ Live /\ ~Suspended("capture")
    /\ captureThread_ = "running"
    /\ ~isCapturing_
    /\ captureThread_' = "finished"
    /\ UNCHANGED <<g_running, ctl, sigThread, mainReturn, exitStatus,
                   statsThread, isCapturing_, capturedFrames_, bufferOverruns_, isPlaying_,
                   playbackThread_, playedFrames_, bufferUnderruns_,
                   pcmWritten, pcmWrites, udpSide, bufferSide,
                   hostLittleEndian, prepSide, codecSide, wireSide, waitSide, calcSide>>

\* playbackLoop: getNextAudioData has called getNextPlaybackPacket, whose
\* wait has ended
PlaybackFetch ==
    /\ Live /\ ~Suspended("playback")
    /\ playbackThread_ = "running"
    /\ isPlaying_
    /\ pcmWrites < MaxPeriods
    /\ GetNextPlaybackPacket("t2")
    /\ playbackThread_' = "fetched"
    /\ UNCHANGED <<g_running, ctl, sigThread, mainReturn, exitStatus,
                   statsThread, isCapturing_, captureThread_, capturedFrames_, bufferOverruns_,
                   isPlaying_, playedFrames_, bufferUnderruns_, pcmWritten,
                   pcmWrites, udpSide, hostLittleEndian, prepSide, codecSide, wireSide,
                   waitSide, calcSide>>

\* a playSilence that only sleeps
playSilenceSleepOnly == <<>>

\* playSilence: silenceBuffer_ goes to writeAudioData (the 10 ms sleep follows)
playSilence == silenceBuffer_

\* what the iteration hands to writeAudioData: the bytes getNextAudioData
\* copied (volume_ is 1.0 and isMuted_ false), or silence when it returned false
PlaybackData ==
    IF ret.ok /\ ret.packet.data # <<>>
    THEN SubSeq(ret.packet.data, 1, Min(PeriodBytes, Len(ret.packet.data)))
    ELSE playSilence

\* playbackLoop: the rest of the iteration.  writeAudioData returns at once
\* when isPlaying_ is false or there is nothing to write; otherwise
\* snd_pcm_writei is called, and outcome is what it returns
PlaybackWrite(outcome) ==
    /\ Live /\ ~Suspended("playback")
    /\ playbackThread_ = "fetched"
    /\ LET data == PlaybackData
           framesToWrite == Len(data) \div (CHANNELS * (BITS_PER_SAMPLE \div 8))
       IN  IF isPlaying_ /\ Len(data) # 0
           THEN /\ pcmWritten' = data
                /\ pcmWrites' = pcmWrites + 1
                /\ playedFrames_' = IF outcome = "written"
                                    THEN playedFrames_ + framesToWrite
                                    ELSE playedFrames_
                /\ bufferUnderruns_' = IF outcome = "underrun"
                                       THEN bufferUnderruns_ + 1
                                       ELSE bufferUnderruns_
           ELSE UNCHANGED <<pcmWritten, pcmWrites, playedFrames_, bufferUnderruns_>>
    /\ playbackThread_' = "running"
    /\ UNCHANGED <<g_running, ctl, sigThread, mainReturn, exitStatus,
                   statsThread, isCapturing_, captureThread_, capturedFrames_, bufferOverruns_,
                   isPlaying_, udpSide, bufferSide, hostLittleEndian, prepSide,
                   codecSide, wireSide, waitSide, calcSide>>

\* playbackLoop: while (isPlaying_) fails
PlaybackExit ==
    /\ Live /\ ~Suspended("playback")
    /\ playbackThread_ = "running"
    /\ ~isPlaying_
    /\ playbackThread_' = "finished"
    /\ UNCHANGED <<g_running, ctl, sigThread, mainReturn, exitStatus,
                   statsThread, isCapturing_, captureThread_, capturedFrames_, bufferOverruns_,
                   isPlaying_, playedFrames_, bufferUnderruns_, pcmWritten,
                   pcmWrites, udpSide, bufferSide, hostLittleEndian, prepSide, codecSide,
                   wireSide, waitSide, calcSide>>

\* what the peer sends while the program runs: a frame numbered 1 and a
\* datagram too short for a header
PipelineDatagrams == {<<1, 0, 0, 0, 7>>, <<57, 48, 0>>}
PipelineSources == {Addr("10.0.0.3", 5001)}

\* the receiver thread inside the program
ReceiverStep ==
    /\ Live /\ ~Suspended("receiver")
    /\ \/ \E datagram \in PipelineDatagrams, fromAddr \in PipelineSources :
             /\ datagramsRead < MaxArrivals
             /\ ReceiverLoopIteration(datagram, fromAddr)
       \/ ReceiverLoopError /\ UNCHANGED bufferSide
    /\ UNCHANGED <<pipeSide, hostLittleEndian, prepSide, codecSide, wireSide,
                   waitSide, calcSide>>

ReceiverEnter ==
    /\ Live /\ ~Suspended("receiver")
    /\ ReceiverLoopRecvfrom
    /\ UNCHANGED <<bufferSide, pipeSide, hostLittleEndian, prepSide, codecSide, wireSide,
                   waitSide, calcSide>>

ReceiverLeave ==
    /\ Live /\ ~Suspended("receiver")
    /\ ReceiverLoopExit
    /\ UNCHANGED <<bufferSide, pipeSide, hostLittleEndian, prepSide, codecSide, wireSide,
                   waitSide, calcSide>>

Callers == {"main", "signal"}
PipelinePorts == {5000}
PipelineIPs == {"10.0.0.2"}
NetworkModes == {"peer", "server", "client"}

NextPipeline ==
    \/ \E ok \in BOOLEAN : InitializeSystem(ok)
    \/ \E mode \in NetworkModes, ip \in PipelineIPs, port \in PipelinePorts, ok \in BOOLEAN :
          MainStartNetwork(mode, ip, port, ok)
    \/ \E ip \in PipelineIPs, port \in PipelinePorts : MainSetRemote(ip, port)
    \/ MainLoopExit
    \/ MainJoinStats
    \/ StatsExit
    \/ \E h \in SignalThreads : SignalArrives(h)
    \/ \E c \in Callers : CaptureStop(c)
    \/ \E c \in Callers : CaptureJoin(c)
    \/ \E c \in Callers : PlayerStop(c)
    \/ \E c \in Callers : PlayerJoin(c)
    \/ \E c \in Callers : TransportStop(c)
    \/ \E c \in Callers : TransportJoin(c)
    \/ MainClearBuffers
    \/ MainReturn
    \/ CaptureRead("read")
    \/ CapturePush
    \/ CaptureExit
    \/ PlaybackFetch
    \/ \E outcome \in PcmOutcomes : PlaybackWrite(outcome)
    \/ PlaybackExit
    \/ ReceiverStep
    \/ ReceiverEnter
    \/ ReceiverLeave

\* every thread that can take a step eventually takes one; the arrival of a
\* signal, of a datagram and of a recvfrom error are up to the environment
PipelineFairness ==
    /\ WF_vars(MainLoopExit) /\ WF_vars(MainJoinStats) /\ WF_vars(StatsExit)
    /\ \A c \in Callers :
          /\ WF_vars(CaptureStop(c)) /\ WF_vars(CaptureJoin(c))
          /\ WF_vars(PlayerStop(c)) /\ WF_vars(PlayerJoin(c))
          /\ WF_vars(TransportStop(c)) /\ WF_vars(TransportJoin(c))
    /\ WF_vars(MainClearBuffers) /\ WF_vars(MainReturn)
    /\ WF_vars(CaptureRead("read")) /\ WF_vars(CapturePush) /\ WF_vars(CaptureExit)
    /\ WF_vars(PlaybackFetch) /\ WF_vars(PlaybackExit)
    /\ WF_vars(\E outcome \in PcmOutcomes : PlaybackWrite(outcome))
    /\ WF_vars(ReceiverEnter) /\ WF_vars(ReceiverLeave)
    /\ WF_vars(\E mode \in NetworkModes, ip \in PipelineIPs, port \in PipelinePorts, ok \in BOOLEAN :
                  MainStartNetwork(mode, ip, port, ok))
    /\ WF_vars(\E ip \in PipelineIPs, port \in PipelinePorts : MainSetRemote(ip, port))
    /\ WF_vars(\E ok \in BOOLEAN : InitializeSystem(ok))

SpecPipeline == InitBuffer /\ [][NextPipeline]_vars /\ PipelineFairness

\* the running program on a capture device that can fail
NextDevice ==
    \/ \E ok \in BOOLEAN : InitializeSystem(ok)
    \/ \E mode \in NetworkModes, ip \in PipelineIPs, port \in PipelinePorts, ok \in BOOLEAN :
          MainStartNetwork(mode, ip, port, ok)
    \/ \E ip \in PipelineIPs, port \in PipelinePorts : MainSetRemote(ip, port)
    \/ MainLoopExit
    \/ MainJoinStats
    \/ StatsExit
    \/ \E h \in SignalThreads : SignalArrives(h)
    \/ \E c \in Callers : CaptureStop(c)
    \/ \E c \in Callers : CaptureJoin(c)
    \/ \E c \in Callers : PlayerStop(c)
    \/ \E c \in Callers : PlayerJoin(c)
    \/ \E c \in Callers : TransportStop(c)
    \/ \E c \in Callers : TransportJoin(c)
    \/ MainClearBuffers
    \/ MainReturn
    \/ \E outcome \in ReadOutcomes : CaptureRead(outcome)
    \/ CaptureWake
    \/ CapturePush
    \/ CaptureExit
    \/ PlaybackFetch
    \/ \E outcome \in PcmOutcomes : PlaybackWrite(outcome)
    \/ PlaybackExit
    \/ ReceiverStep
    \/ ReceiverEnter
    \/ ReceiverLeave

SpecDevice == InitBuffer /\ [][NextDevice]_vars

(***************************************************************************)
(* getNextPlaybackPacket with its wait.  wait_for(lock, 10 ms, pred) is    *)
(* wait_until(lock, now + 10 ms, pred): the predicate is tested on entry   *)
(* and after every wake-up, notified or spurious, and each further wait    *)
(* ends at the same absolute time.  The thread is taken to run as soon as  *)
(* that time is reached: the clock does not pass the end of a wait in      *)
(* progress.                                                               *)
(***************************************************************************)
\* std::chrono::milliseconds(10), in clock ticks of 5 ms
PlaybackTimeout == 2

PlaybackThread == "t2"

\* sequence numbers of arriving frames, in no particular order
ArrivalSeqs == {7, 3}

\* the arrival number a frame of this specification carries as its payload
Arrival(packet) == packet.data[1]

\* a wait restarted with the full timeout after every wake-up
WaitAgainFullTimeout(deadline, now) == now + PlaybackTimeout

\* the end of the wait after a wake-up that found the queue empty
WaitAgain(deadline, now) == deadline

\* the return of getNextPlaybackPacket: nullptr for an empty queue, the
\* front of the queue otherwise
PlaybackReturn(t) ==
    /\ IF outputBuffer_ = <<>>
       THEN /\ ret' = Returned(FALSE, NullPacket)
            /\ UNCHANGED <<outputBuffer_, popped, lastPlayed>>
       ELSE /\ ret' = Returned(TRUE, Head(outputBuffer_))
            /\ outputBuffer_' = Tail(outputBuffer_)
            /\ popped' = [popped EXCEPT !["out"] = @ + 1]
            /\ lastPlayed' = Arrival(Head(outputBuffer_))
    /\ pc' = [pc EXCEPT ![t] = "idle"]

\* entry: the lock is taken and the predicate tested; with a frame queued
\* the call returns at once
GetNextPlaybackEnter(t) ==
    /\ pc[t] = "idle"
    /\ ~OutputLocked
    /\ waitStart' = clock
    /\ IF outputBuffer_ # <<>>
       THEN PlaybackReturn(t) /\ UNCHANGED waitDeadline
       ELSE /\ pc' = [pc EXCEPT ![t] = "waitOut"]
            /\ waitDeadline' = clock + PlaybackTimeout
            /\ UNCHANGED <<outputBuffer_, popped, lastPlayed, ret>>
    /\ UNCHANGED <<inputBuffer_, maxBufferSize_, nextSequenceNumber_, droppedPackets_,
                   totalPackets_, reg, pkt, pushed, evicted, lastAssigned, clock>>

\* a wake-up before the end of the wait, by notify_one or spurious
GetNextPlaybackWake(t) ==
    /\ pc[t] = "waitOut"
    /\ ~OutputLocked
    /\ clock < waitDeadline
    /\ IF outputBuffer_ # <<>>
       THEN PlaybackReturn(t) /\ UNCHANGED waitDeadline
       ELSE /\ waitDeadline' = WaitAgain(waitDeadline, clock)
            /\ UNCHANGED <<outputBuffer_, popped, lastPlayed, ret, pc>>
    /\ UNCHANGED <<inputBuffer_, maxBufferSize_, nextSequenceNumber_, droppedPackets_,
                   totalPackets_, reg, pkt, pushed, evicted, lastAssigned, clock,
                   waitStart>>

\* the end of the wait: wait_for returns pred()
GetNextPlaybackTimeout(t) ==
    /\ pc[t] = "waitOut"
    /\ ~OutputLocked
    /\ clock >= waitDeadline
    /\ PlaybackReturn(t)
    /\ UNCHANGED <<inputBuffer_, maxBufferSize_, nextSequenceNumber_, droppedPackets_,
                   totalPackets_, reg, pkt, pushed, evicted, lastAssigned, clock,
                   waitStart, waitDeadline>>

\* time passes
Tick ==
    /\ clock < MaxClock
    /\ pc[PlaybackThread] = "waitOut" => clock < waitDeadline
    /\ clock' = clock + 1
    /\ UNCHANGED <<bufferSide, waitStart, waitDeadline, lastPlayed>>

\* a frame arrives from the network; its payload is its arrival number
FrameArrives(seqNum) ==
    /\ pushed["out"] < MaxFrames
    /\ PushNetworkPacketWhole(AudioPacket(<<pushed["out"] + 1>>, seqNum))
    /\ UNCHANGED waitSide

PlaybackOnly ==
    UNCHANGED <<hostLittleEndian, prepSide, codecSide, wireSide, udpSide, pipeSide, calcSide>>

NextPlayback ==
    \/ GetNextPlaybackEnter(PlaybackThread) /\ PlaybackOnly
    \/ GetNextPlaybackWake(PlaybackThread) /\ PlaybackOnly
    \/ GetNextPlaybackTimeout(PlaybackThread) /\ PlaybackOnly
    \/ Tick /\ PlaybackOnly
    \/ \E seqNum \in ArrivalSeqs : FrameArrives(seqNum) /\ PlaybackOnly
    \/ SetMaxBufferSize("t1", 1) /\ BufferOnly
    \/ ClearBuffersInput("t1") /\ BufferOnly
    \/ ClearBuffersOutput("t1") /\ BufferOnly
    \/ ClearBuffersSeq("t1") /\ BufferOnly

SpecPlayback == InitBuffer /\ [][NextPlayback]_vars

(***************************************************************************)
(* BitrateCalculator.  The float members are kept as scaled integers:      *)
(* targetQuality_, adaptationSpeed_ and stabilityThreshold_ in tenths,     *)
(* packetLossRate in thousandths, averageVolume in hundredths, bandwidth   *)
(* in kbps, signalToNoiseRatio in dB.  For the values used here the float  *)
(* products and the truncating casts give the same integers.               *)
(***************************************************************************)
QualityModes == {"POWER_SAVE", "BALANCED", "HIGH_QUALITY", "ADAPTIVE"}

NetworkMetrics(loss, latency, jit, bw) ==
    [packetLossRate |-> loss, averageLatency |-> latency, jitter |-> jit,
     bandwidth |-> bw]

AudioMetrics(snr, volume, speech) ==
    [signalToNoiseRatio |-> snr, averageVolume |-> volume, speechDetected |-> speech]

\* the metrics as their constructors leave them
DefaultNetworkMetrics == NetworkMetrics(0, 0, 0, 0)
DefaultAudioMetrics == AudioMetrics(0, 0, FALSE)

\* 10 % loss at 100 ms; 3 % loss at 300 ms on a 5 kbps link
NetworkSamples == {DefaultNetworkMetrics, NetworkMetrics(100, 100, 0, 0),
                   NetworkMetrics(30, 300, 0, 5)}

\* speech with RMS 0.8 and SNR 25 dB
SpeechMetrics == AudioMetrics(25, 80, TRUE)
AudioSamples == {DefaultAudioMetrics, SpeechMetrics}

InitialBitrates == {100, 6000, 20000}

\* arguments of setTargetQuality, setAdaptationSpeed, setStabilityThreshold
SettingSamples == {0, 15}

\* what locking metricsMutex_ a second time on the same thread does: the
\* behaviour is undefined; the thread blocks for ever, or the lock is let
\* through
RelockOutcomes == {"deadlock", "proceeds"}

\* std::max(0.0f, std::min(1.0f, x))
ClampUnit(x) == Max(0, Min(10, x))

\* clampBitrate that returns its argument
clampBitrateNone(bitrate) == bitrate

clampBitrate(bitrate) == Max(LYRA_MIN_BITRATE, Min(LYRA_MAX_BITRATE, bitrate))

calculateNetworkBasedBitrate(metrics) ==
    LET half == (LYRA_MIN_BITRATE + LYRA_DEFAULT_BITRATE) \div 2
        byLoss == IF metrics.packetLossRate > 50 THEN LYRA_MIN_BITRATE
                  ELSE IF metrics.packetLossRate > 20 THEN half
                  ELSE LYRA_DEFAULT_BITRATE
        byLatency == IF metrics.averageLatency > 500 THEN Min(byLoss, LYRA_MIN_BITRATE)
                     ELSE IF metrics.averageLatency > 200 THEN Min(byLoss, half)
                     ELSE byLoss
    IN  IF metrics.bandwidth > 0
        THEN Min(byLatency, metrics.bandwidth * 800)
        ELSE byLatency

calculateAudioBasedBitrate(metrics) ==
    IF ~metrics.speechDetected THEN LYRA_MIN_BITRATE
    ELSE LET byVolume == IF metrics.averageVolume > 70 THEN LYRA_MAX_BITRATE
                         ELSE IF metrics.averageVolume < 10 THEN LYRA_MIN_BITRATE
                         ELSE LYRA_DEFAULT_BITRATE
         IN  IF metrics.signalToNoiseRatio > 20 THEN Max(byVolume, LYRA_DEFAULT_BITRATE)
             ELSE IF metrics.signalToNoiseRatio < 10 THEN LYRA_MIN_BITRATE
             ELSE byVolume

\* applyQualityMode, with the value of qualityMode_ it reads as mode
applyQualityMode(mode, baseBitrate) ==
    CASE mode = "POWER_SAVE" -> LYRA_MIN_BITRATE
      [] mode = "BALANCED" -> Min(baseBitrate, LYRA_DEFAULT_BITRATE)
      [] mode = "HIGH_QUALITY" -> Max(baseBitrate, LYRA_MAX_BITRATE)
      [] OTHER ->
           Min(baseBitrate,
               LYRA_MIN_BITRATE
                 + ((LYRA_MAX_BITRATE - LYRA_MIN_BITRATE) * targetQuality_) \div 10)

\* static_cast<uint32_t>(currentBitrate + diff * adaptationSpeed_)
smoothBitrateTransition(newBitrate) ==
    (calcCurrentBitrate_ * 10 + (newBitrate - calcCurrentBitrate_) * adaptationSpeed_)
        \div 10

\* |new - current| / current >= stabilityThreshold_
shouldUpdateBitrate(newBitrate) ==
    LET d == newBitrate - calcCurrentBitrate_
    IN  (IF d < 0 THEN -d ELSE d) * 10 >= stabilityThreshold_ * calcCurrentBitrate_

\* calculateOptimalBitrate(network, audio)
OptimalFor(mode, network, audio) ==
    LET networkBitrate == calculateNetworkBasedBitrate(network)
        audioBitrate == calculateAudioBasedBitrate(audio)
        combinedBitrate == (networkBitrate * 6 + audioBitrate * 4) \div 10
    IN  clampBitrate(smoothBitrateTransition(applyQualityMode(mode, combinedBitrate)))

\* calculateOptimalBitrate() when the members hold mode, network and audio
calculateOptimalBitrate(mode, network, audio) ==
    IF ~calcInitialized_ THEN LYRA_DEFAULT_BITRATE
    ELSE OptimalFor(mode, network, audio)

addToHistory(history, bitrate) ==
    IF Len(history) + 1 > maxHistorySize_
    THEN Tail(Append(history, bitrate))
    ELSE Append(history, bitrate)

\* the four statements every committing path runs
Commit(newBitrate) ==
    /\ calcCurrentBitrate_' = newBitrate
    /\ recommendedBitrate_' = newBitrate
    /\ bitrateHistory_' = addToHistory(bitrateHistory_, newBitrate)
    /\ bitrateChanges_' = bitrateChanges_ + 1

NoCommit ==
    UNCHANGED <<calcCurrentBitrate_, recommendedBitrate_, bitrateHistory_,
                bitrateChanges_>>

\* bookkeeping of a call: its name, and the committed changes made since
\* the metrics were last reported with different values
Called(op, repeated) ==
    /\ calcOps' = calcOps + 1
    /\ lastOp' = op
    /\ repeatChanges' =
          IF op \in {"updateNetworkMetrics", "updateAudioMetrics"}
          THEN (IF repeated THEN repeatChanges ELSE 0)
                 + (IF calcCurrentBitrate_' # calcCurrentBitrate_ THEN 1 ELSE 0)
          ELSE 0
    /\ calcUpdates' =
          IF op \in {"updateNetworkMetrics", "updateAudioMetrics"}
          THEN calcUpdates + 1 ELSE calcUpdates

CalcInitialize(initialBitrate) ==
    /\ IF calcInitialized_
       THEN NoCommit /\ UNCHANGED calcInitialized_
       ELSE /\ calcCurrentBitrate_' = clampBitrate(initialBitrate)
            /\ recommendedBitrate_' = clampBitrate(initialBitrate)
            /\ bitrateHistory_' = addToHistory(bitrateHistory_, clampBitrate(initialBitrate))
            /\ calcInitialized_' = TRUE
            /\ UNCHANGED bitrateChanges_
    /\ Called("initialize", FALSE)
    /\ UNCHANGED <<calcSettings, networkMetrics_, audioMetrics_, metricsMutex_>>

CalcShutdown ==
    /\ IF calcInitialized_
       THEN calcInitialized_' = FALSE /\ bitrateHistory_' = <<>>
       ELSE UNCHANGED <<calcInitialized_, bitrateHistory_>>
    /\ Called("shutdown", FALSE)
    /\ UNCHANGED <<calcCurrentBitrate_, recommendedBitrate_, bitrateChanges_,
                   calcSettings, networkMetrics_, audioMetrics_, metricsMutex_>>

\* the part updateNetworkMetrics and updateAudioMetrics share: with the
\* mutex held, calculateOptimalBitrate() is called, which locks it again
\* when the calculator is initialized
Recompute(network, audio, relock) ==
    IF ~autoAdaptationEnabled_
    THEN NoCommit /\ UNCHANGED metricsMutex_
    ELSE IF calcInitialized_ /\ relock = "deadlock"
    THEN NoCommit /\ metricsMutex_' = "deadlocked"
    ELSE /\ LET newBitrate == calculateOptimalBitrate(qualityMode_, network, audio)
            IN  IF shouldUpdateBitrate(newBitrate)
                THEN Commit(newBitrate)
                ELSE NoCommit
         /\ UNCHANGED metricsMutex_

UpdateNetworkMetrics(metrics, relock) ==
    /\ metricsMutex_ = "free"
    /\ networkMetrics_' = metrics
    /\ Recompute(metrics, audioMetrics_, relock)
    /\ Called("updateNetworkMetrics", metrics = networkMetrics_)
    /\ UNCHANGED <<calcInitialized_, calcSettings, audioMetrics_>>

UpdateAudioMetrics(metrics, relock) ==
    /\ metricsMutex_ = "free"
    /\ audioMetrics_' = metrics
    /\ Recompute(networkMetrics_, metrics, relock)
    /\ Called("updateAudioMetrics", metrics = audioMetrics_)
    /\ UNCHANGED <<calcInitialized_, calcSettings, networkMetrics_>>

ReportPacketLoss(totalPackets, lostPackets) ==
    /\ metricsMutex_ = "free" \/ totalPackets = 0
    /\ networkMetrics_' =
          IF totalPackets = 0 THEN networkMetrics_
          ELSE [networkMetrics_ EXCEPT
                   !.packetLossRate = (lostPackets * 1000) \div totalPackets]
    /\ NoCommit
    /\ Called("reportPacketLoss", FALSE)
    /\ UNCHANGED <<calcInitialized_, calcSettings, audioMetrics_, metricsMutex_>>

\* exponential moving average with alpha 0.3, truncated
ReportLatency(latencyMs) ==
    /\ metricsMutex_ = "free"
    /\ networkMetrics_' =
          [networkMetrics_ EXCEPT
              !.averageLatency = (3 * latencyMs + 7 * networkMetrics_.averageLatency) \div 10]
    /\ NoCommit
    /\ Called("reportLatency", FALSE)
    /\ UNCHANGED <<calcInitialized_, calcSettings, audioMetrics_, metricsMutex_>>

ReportBandwidth(bandwidthKbps) ==
    /\ metricsMutex_ = "free"
    /\ networkMetrics_' = [networkMetrics_ EXCEPT !.bandwidth = bandwidthKbps]
    /\ NoCommit
    /\ Called("reportBandwidth", FALSE)
    /\ UNCHANGED <<calcInitialized_, calcSettings, audioMetrics_, metricsMutex_>>

SetTargetQuality(quality) ==
    /\ targetQuality_' = ClampUnit(quality)
    /\ NoCommit
    /\ Called("setTargetQuality", FALSE)
    /\ UNCHANGED <<calcInitialized_, adaptationSpeed_, stabilityThreshold_, qualityMode_,
                   autoAdaptationEnabled_, networkMetrics_, audioMetrics_, metricsMutex_>>

SetAdaptationSpeed(speed) ==
    /\ adaptationSpeed_' = ClampUnit(speed)
    /\ NoCommit
    /\ Called("setAdaptationSpeed", FALSE)
    /\ UNCHANGED <<calcInitialized_, targetQuality_, stabilityThreshold_, qualityMode_,
                   autoAdaptationEnabled_, networkMetrics_, audioMetrics_, metricsMutex_>>

SetStabilityThreshold(threshold) ==
    /\ stabilityThreshold_' = ClampUnit(threshold)
    /\ NoCommit
    /\ Called("setStabilityThreshold", FALSE)
    /\ UNCHANGED <<calcInitialized_, targetQuality_, adaptationSpeed_, qualityMode_,
                   autoAdaptationEnabled_, networkMetrics_, audioMetrics_, metricsMutex_>>

EnableAutoAdaptation(enable) ==
    /\ autoAdaptationEnabled_' = enable
    /\ NoCommit
    /\ Called("enableAutoAdaptation", FALSE)
    /\ UNCHANGED <<calcInitialized_, targetQuality_, adaptationSpeed_, stabilityThreshold_,
                   qualityMode_, networkMetrics_, audioMetrics_, metricsMutex_>>

\* setQualityMode: the mode is stored, then, with auto adaptation on,
\* calculateOptimalBitrate() is called without the mutex held and its result
\* committed when it differs from the current bitrate.  With the mutex lost
\* to a deadlocked thread the call blocks in calculateOptimalBitrate().
SetQualityMode(mode) ==
    /\ qualityMode_' = mode
    /\ IF ~autoAdaptationEnabled_ \/ (calcInitialized_ /\ metricsMutex_ # "free")
       THEN NoCommit
       ELSE LET newBitrate ==
                   calculateOptimalBitrate(mode, networkMetrics_, audioMetrics_)
            IN  IF newBitrate # calcCurrentBitrate_
                THEN Commit(newBitrate)
                ELSE NoCommit
    /\ Called("setQualityMode", FALSE)
    /\ UNCHANGED <<calcInitialized_, targetQuality_, adaptationSpeed_, stabilityThreshold_,
                   autoAdaptationEnabled_, networkMetrics_, audioMetrics_, metricsMutex_>>

CalcOnly ==
    UNCHANGED <<bufferSide, hostLittleEndian, prepSide, codecSide, wireSide, udpSide, pipeSide,
                waitSide>>

\* every public operation, with arguments from the samples
CalcCall == calcOps < MaxCalcOps /\ CalcOnly

NextBitrate ==
    \/ \E initialBitrate \in InitialBitrates : CalcInitialize(initialBitrate) /\ CalcCall
    \/ CalcShutdown /\ CalcCall
    \/ \E metrics \in NetworkSamples, relock \in RelockOutcomes :
          UpdateNetworkMetrics(metrics, relock) /\ CalcCall
    \/ \E metrics \in AudioSamples, relock \in RelockOutcomes :
          UpdateAudioMetrics(metrics, relock) /\ CalcCall
    \/ \E totalPackets \in {0, 100} : ReportPacketLoss(totalPackets, 10) /\ CalcCall
    \/ ReportLatency(1000) /\ CalcCall
    \/ ReportBandwidth(5) /\ CalcCall
    \/ \E quality \in SettingSamples : SetTargetQuality(quality) /\ CalcCall
    \/ \E speed \in SettingSamples : SetAdaptationSpeed(speed) /\ CalcCall
    \/ \E threshold \in SettingSamples : SetStabilityThreshold(threshold) /\ CalcCall
    \/ \E enable \in BOOLEAN : EnableAutoAdaptation(enable) /\ CalcCall
    \/ \E mode \in QualityModes : SetQualityMode(mode) /\ CalcCall

SpecBitrate == InitBuffer /\ [][NextBitrate]_vars

\* 10 lost of 100 packets and 100 ms latency are reported, and the stored
\* metrics are handed to updateNetworkMetrics again and again
ScenarioReport == calcInitialized_ /\ calcOps - calcUpdates <= MaxReports /\ CalcOnly

ScenarioUpdate == calcInitialized_ /\ calcUpdates < MaxScenarioUpdates /\ CalcOnly

LossUpdate ==
    \E relock \in RelockOutcomes :
       UpdateNetworkMetrics(networkMetrics_, relock) /\ ScenarioUpdate

NextLoss ==
    \/ calcOps = 0 /\ CalcInitialize(LYRA_DEFAULT_BITRATE) /\ CalcOnly
    \/ ReportPacketLoss(100, 10) /\ ScenarioReport
    \/ ReportLatency(100) /\ ScenarioReport
    \/ LossUpdate

SpecLoss == InitBuffer /\ [][NextLoss]_vars /\ WF_vars(LossUpdate)

\* speech with RMS 0.8 and SNR 25 dB on a channel without loss and with
\* 50 ms latency, reported again and again
SpeechAudioUpdate ==
    \E relock \in RelockOutcomes :
       UpdateAudioMetrics(SpeechMetrics, relock) /\ ScenarioUpdate

SpeechNetworkUpdate ==
    \E relock \in RelockOutcomes :
       UpdateNetworkMetrics(networkMetrics_, relock) /\ ScenarioUpdate

NextSpeech ==
    \/ calcOps = 0 /\ CalcInitialize(LYRA_MIN_BITRATE) /\ CalcOnly
    \/ ReportPacketLoss(100, 0) /\ ScenarioReport
    \/ ReportLatency(50) /\ ScenarioReport
    \/ SpeechAudioUpdate
    \/ SpeechNetworkUpdate

SpecSpeech ==
    /\ InitBuffer /\ [][NextSpeech]_vars
    /\ WF_vars(SpeechAudioUpdate) /\ WF_vars(SpeechNetworkUpdate)

\* network metrics on and around the thresholds of
\* calculateNetworkBasedBitrate: loss of 0, 2, 2.1, 5, 5.1 and 10 %, latency
\* of 0, 200, 201, 500 and 501 ms, bandwidth unknown and 1, 4, 5, 8, 100 kbps
LossGrid == {0, 20, 21, 50, 51, 100}
LatencyGrid == {0, 200, 201, 500, 501}
BandwidthGrid == {0, 1, 4, 5, 8, 100}
NetworkGrid ==
    {NetworkMetrics(loss, latency, 0, bw) :
        loss \in LossGrid, latency \in LatencyGrid, bw \in BandwidthGrid}

\* an initialized calculator that is handed metrics of the grid
NextTarget ==
    \/ calcOps = 0 /\ CalcInitialize(LYRA_DEFAULT_BITRATE) /\ CalcOnly
    \/ \E metrics \in NetworkGrid, relock \in RelockOutcomes :
          /\ calcInitialized_ /\ calcOps < MaxTargetOps
          /\ UpdateNetworkMetrics(metrics, relock) /\ CalcOnly

SpecTarget == InitBuffer /\ [][NextTarget]_vars

(***************************************************************************)
(* AudioPreprocessor.  A float sample is kept as its numerator over        *)
(* FloatOne: int16ToFloat multiplies by 1/32768, so the samples it makes   *)
(* are whole.  Gains, levels of the configuration and probabilities are in *)
(* thousandths; a product is truncated where the float one is rounded.     *)
(* A frame is its sample count and the values of its equal runs:           *)
(* PrepFrame(960, <<a, b>>) is 480 samples a followed by 480 samples b, so *)
(* that the mean square of the frame is that of <<a, b>> and what is done  *)
(* to every sample is done to a and b.  What the NoiseSuppresor computes   *)
(* from a frame depends on the RNNoise network the build links or on the   *)
(* fallback it compiles instead: the speech probability it leaves behind   *)
(* is an input of the step, and the samples it rewrites are not followed.  *)
(***************************************************************************)
FloatOne == 32768
GainOne == 1000
GainFloor == 100
GainCeiling == 2000
RNNOISE_FRAME_SIZE == 480

TruncDiv(a, b) == IF a >= 0 THEN a \div b ELSE -((-a) \div b)

PrepFrame(sampleCount, runs) == [count |-> sampleCount, samples |-> runs]

\* int16ToFloat and floatToInt16, sample by sample
int16ToFloat(sample) == TruncDiv(sample * FloatOne, 32768)

floatToInt16(sample) ==
    TruncDiv(Max(-FloatOne, Min(FloatOne, sample)) * 32767, FloatOne)

\* the bytes of int16 samples as reinterpret_cast reads them, and the samples
\* memcpy makes of such bytes
RawBytes(samples) ==
    [i \in 1..(2 * Len(samples)) |-> HostBytes16(samples[(i + 1) \div 2])[2 - (i % 2)]]

RawSamples(bytes) ==
    [i \in 1..(Len(bytes) \div 2) |->
        LET lo == IF hostLittleEndian THEN bytes[2 * i - 1] ELSE bytes[2 * i]
            hi == IF hostLittleEndian THEN bytes[2 * i] ELSE bytes[2 * i - 1]
            u == lo + 256 * hi
        IN  IF u >= 32768 THEN u - 65536 ELSE u]

RECURSIVE ISqrtBetween(_, _, _)
\* the largest r in lo..hi with r * r <= v
ISqrtBetween(v, lo, hi) ==
    IF lo >= hi THEN lo
    ELSE LET mid == (lo + hi + 1) \div 2
         IN  IF mid * mid <= v THEN ISqrtBetween(v, mid, hi)
                               ELSE ISqrtBetween(v, lo, mid - 1)

RECURSIVE SumOf(_)
SumOf(s) == IF s = <<>> THEN 0 ELSE s[1] + SumOf(Tail(s))

\* PreprocessingUtils::calculateRMS of float samples, as a float sample
calculateRMS(samples, sampleCount) ==
    IF sampleCount = 0 \/ samples = <<>> THEN 0
    ELSE LET n == Len(samples)
             quotients == [i \in 1..n |-> (samples[i] * samples[i]) \div n]
             remainders == [i \in 1..n |-> (samples[i] * samples[i]) % n]
         IN  ISqrtBetween(SumOf(quotients) + SumOf(remainders) \div n, 0, FloatOne)

\* updateGainControl: the value it leaves in currentGain_
updateGainControl(gain, target, samples, sampleCount) ==
    LET currentLevel == calculateRMS(samples, sampleCount)
    IN  IF currentLevel > 0
        THEN LET desiredGain == (target * FloatOne) \div currentLevel
                 smoothed == (desiredGain + 9 * gain) \div 10
             IN  Max(GainFloor, Min(GainCeiling, smoothed))
        ELSE gain

\* an applyAGC that scales and does not clip
applyAGCUnclipped(gain, samples) ==
    [i \in DOMAIN samples |-> TruncDiv(samples[i] * gain, GainOne)]

\* applyAGC: the samples it leaves in the buffer, gain being currentGain_
\* after updateGainControl
applyAGC(gain, samples) ==
    [i \in DOMAIN samples |->
        Max(-FloatOne, Min(FloatOne, TruncDiv(samples[i] * gain, GainOne)))]

validateConfig(config) ==
    /\ config.noiseSuppressionLevel >= 0 /\ config.noiseSuppressionLevel <= 1000
    /\ config.vadThreshold >= 0 /\ config.vadThreshold <= 1000
    /\ config.agcTargetLevel >= 100 /\ config.agcTargetLevel <= 2000
    /\ config.targetBitrate >= LYRA_MIN_BITRATE
    /\ config.targetBitrate <= LYRA_MAX_BITRATE

validateSampleCount(sampleCount) ==
    sampleCount > 0 /\ sampleCount <= FRAMES_PER_BUFFER * 4

\* the configurations handed to initialize and updateConfig: the default,
\* the codec switched off, speech detection left to the NoiseSuppresor with
\* no gain control, and a target level below the range
PassThroughConfig == [DefaultConfig EXCEPT !.enableCodec = FALSE]
NoVADConfig == [DefaultConfig EXCEPT !.enableVAD = FALSE, !.enableAGC = FALSE]
BadLevelConfig == [DefaultConfig EXCEPT !.agcTargetLevel = 50]
PrepConfigs == {DefaultConfig, PassThroughConfig, NoVADConfig, BadLevelConfig}

\* frames of int16 samples: 20 ms at 48 kHz, 20 ms at 16 kHz, no samples, and
\* more than validateSampleCount admits
SpeechFrames ==
    {PrepFrame(960, <<1, 1>>), PrepFrame(960, <<-32768, 20000>>),
     PrepFrame(960, <<20000, 20000>>)}
PrepFrames ==
    SpeechFrames \cup
    {PrepFrame(320, <<20000>>), PrepFrame(0, <<>>), PrepFrame(5000, <<1>>)}

\* speech probabilities the NoiseSuppresor may arrive at
SpeechProbabilities == {200, 800}

\* EncodedPacket as the raw branch of encode builds it; the bytes stand for
\* their runs as the samples do, size is packet.data.size()
RawPacket(frame) ==
    [size |-> 2 * frame.count,
     packet |-> EncodedPacket(RawBytes(frame.samples), 0, 0)]

\* packets handed to decode: the raw packets of the 20 ms frames, and one
\* of an odd number of bytes
PrepPackets ==
    {RawPacket(f) : f \in SpeechFrames} \cup
    {[size |-> 3, packet |-> EncodedPacket(<<1, 0, 7>>, 0, 0)]}

\* std::nullopt, a bool, and std::optional holding samples
PrepNothing == [ok |-> FALSE]
PrepDone == [ok |-> TRUE]
PrepSome(runs) == [ok |-> TRUE, samples |-> runs]

\* what LyraCodec::encode and LyraCodec::decode hand back to the codec
\* branch of encode and decode; the codec is the subject of SpecCodec
CodecResult(codecOk) == IF codecOk THEN [ok |-> TRUE, codec |-> "lyra"] ELSE PrepNothing

\* initialize.  The components are made after config_, currentGain_ and
\* targetGain_ are assigned; when the NoiseSuppresor cannot be initialized
\* shutdownComponents resets what was made and initialized_ stays false
PreprocessorInitialize(config, componentsOk) ==
    /\ prepOp' = "initialize"
    /\ prepArg' = <<>>
    /\ IF prepInitialized_ \/ ~validateConfig(config)
       THEN /\ prepRet' = PrepNothing
            /\ UNCHANGED <<prepVars, agcOut, denoised, speechSeen, speechCalls>>
       ELSE /\ config_' = config
            /\ currentGain_' = GainOne
            /\ targetGain_' = config.agcTargetLevel
            /\ IF config.enableNoiseSupression /\ ~componentsOk
               THEN /\ noiseSuppresor_' = FALSE
                    /\ codec_' = FALSE
                    /\ prepRet' = PrepNothing
                    /\ UNCHANGED <<prepInitialized_, threshold_, speechProbability>>
               ELSE /\ noiseSuppresor_' = config.enableNoiseSupression
                    /\ threshold_' = IF config.enableNoiseSupression
                                     THEN Max(0, Min(1000, config.vadThreshold))
                                     ELSE threshold_
                    /\ speechProbability' = IF config.enableNoiseSupression
                                            THEN 0 ELSE speechProbability
                    /\ codec_' = config.enableCodec
                    /\ prepInitialized_' = TRUE
                    /\ prepRet' = PrepDone
            /\ UNCHANGED <<onSpeechDetected_, totalProcessedFrames_, agcOut, denoised,
                           speechSeen, speechCalls>>

\* shutdown
PreprocessorShutdown ==
    /\ prepOp' = "shutdown"
    /\ prepArg' = <<>>
    /\ prepRet' = PrepDone
    /\ IF ~prepInitialized_
       THEN UNCHANGED <<prepInitialized_, noiseSuppresor_, codec_>>
       ELSE /\ noiseSuppresor_' = FALSE
            /\ codec_' = FALSE
            /\ prepInitialized_' = FALSE
    /\ UNCHANGED <<config_, threshold_, speechProbability, currentGain_, targetGain_,
                   onSpeechDetected_, totalProcessedFrames_, agcOut, denoised, speechSeen,
                   speechCalls>>

\* updateConfig: the components are configured again, none is made or reset
UpdateConfig(config) ==
    /\ prepOp' = "updateConfig"
    /\ prepArg' = <<>>
    /\ prepRet' = PrepDone
    /\ IF ~validateConfig(config)
       THEN UNCHANGED <<config_, threshold_, targetGain_>>
       ELSE /\ config_' = config
            /\ threshold_' = IF noiseSuppresor_
                             THEN Max(0, Min(1000, config.vadThreshold))
                             ELSE threshold_
            /\ targetGain_' = config.agcTargetLevel
    /\ UNCHANGED <<prepInitialized_, codec_, noiseSuppresor_, speechProbability,
                   currentGain_, onSpeechDetected_, totalProcessedFrames_, agcOut, denoised,
                   speechSeen, speechCalls>>

\* setOnSpeechDetected, with a callable or an empty std::function
SetOnSpeechDetected(callable) ==
    /\ prepOp' = "setOnSpeechDetected"
    /\ prepArg' = <<>>
    /\ prepRet' = PrepDone
    /\ onSpeechDetected_' = callable
    /\ UNCHANGED <<prepInitialized_, config_, codec_, noiseSuppresor_, threshold_,
                   speechProbability, currentGain_, targetGain_,
                   totalProcessedFrames_, agcOut, denoised, speechSeen, speechCalls>>

\* processAudioChain on the input path, for sampleCount > 0: applyAGC, the
\* NoiseSuppresor on the first RNNOISE_FRAME_SIZE samples, applyVAD, and the
\* call of onSpeechDetected_ when it holds a callable
InputChain(frame, probability) ==
    LET floats == [i \in DOMAIN frame.samples |-> int16ToFloat(frame.samples[i])]
        gain == IF config_.enableAGC
                THEN updateGainControl(currentGain_, targetGain_, floats, frame.count)
                ELSE currentGain_
        suppressed == /\ config_.enableNoiseSupression
                      /\ noiseSuppresor_
                      /\ frame.count >= RNNOISE_FRAME_SIZE
        speechProb == IF suppressed THEN probability ELSE speechProbability
        vadProb == IF noiseSuppresor_ THEN speechProb ELSE 500
        speechDetected == IF config_.enableVAD
                          THEN vadProb > config_.vadThreshold
                          ELSE suppressed /\ speechProb > threshold_
    IN  /\ currentGain_' = gain
        /\ agcOut' = IF config_.enableAGC THEN applyAGC(gain, floats) ELSE agcOut
        /\ denoised' = IF suppressed THEN {0} ELSE {}
        /\ speechProbability' = speechProb
        /\ speechSeen' = Append(speechSeen, speechDetected)
        /\ speechCalls' = IF onSpeechDetected_
                          THEN Append(speechCalls, speechDetected)
                          ELSE speechCalls

\* processInput(int16_t*, size_t)
ProcessInput(frame, probability) ==
    /\ Len(speechSeen) < MaxInputFrames
    /\ prepOp' = "processInput"
    /\ prepArg' = frame
    /\ IF ~prepInitialized_ \/ ~validateSampleCount(frame.count)
       THEN /\ prepRet' = PrepNothing
            /\ UNCHANGED <<prepVars, agcOut, denoised, speechSeen, speechCalls>>
       ELSE /\ InputChain(frame, probability)
            /\ totalProcessedFrames_' = totalProcessedFrames_ + 1
            /\ prepRet' = PrepDone
            /\ UNCHANGED <<prepInitialized_, config_, codec_, noiseSuppresor_,
                           threshold_, targetGain_, onSpeechDetected_>>

\* processOutput(int16_t*, size_t): what it leaves in the caller's buffer.
\* The output path multiplies by currentGain_ when enableAGC is set and
\* changes no member
OutputChain(samples) ==
    [i \in DOMAIN samples |->
        LET float == int16ToFloat(samples[i])
        IN  floatToInt16(IF config_.enableAGC
                         THEN TruncDiv(float * currentGain_, GainOne)
                         ELSE float)]

ProcessOutput(frame) ==
    /\ prepOp' = "processOutput"
    /\ prepArg' = frame
    /\ prepRet' = IF ~prepInitialized_ \/ ~validateSampleCount(frame.count)
                  THEN PrepNothing
                  ELSE PrepSome(OutputChain(frame.samples))
    /\ UNCHANGED <<prepVars, agcOut, denoised, speechSeen, speechCalls>>

\* encode(const int16_t*, size_t)
PreprocessorEncode(frame, probability, codecOk) ==
    /\ Len(speechSeen) < MaxInputFrames
    /\ prepOp' = "encode"
    /\ prepArg' = frame
    /\ IF ~prepInitialized_ \/ ~codec_
       THEN /\ prepRet' = PrepNothing
            /\ UNCHANGED <<prepVars, agcOut, denoised, speechSeen, speechCalls>>
       ELSE IF ~config_.enableCodec
       THEN /\ prepRet' = [ok |-> TRUE, raw |-> RawPacket(frame)]
            /\ UNCHANGED <<prepVars, agcOut, denoised, speechSeen, speechCalls>>
       ELSE IF ~validateSampleCount(frame.count)
       THEN /\ prepRet' = PrepNothing
            /\ UNCHANGED <<prepVars, agcOut, denoised, speechSeen, speechCalls>>
       ELSE /\ InputChain(frame, probability)
            /\ totalProcessedFrames_' = totalProcessedFrames_ + 1
            /\ prepRet' = CodecResult(codecOk)
            /\ UNCHANGED <<prepInitialized_, config_, codec_, noiseSuppresor_,
                           threshold_, targetGain_, onSpeechDetected_>>

\* decode(const EncodedPacket&)
PreprocessorDecode(raw, codecOk) ==
    /\ prepOp' = "decode"
    /\ prepArg' = raw
    /\ prepRet' =
          IF ~prepInitialized_ \/ ~codec_ THEN PrepNothing
          ELSE IF ~config_.enableCodec
          THEN IF raw.size % 2 # 0 \/ ~validateSampleCount(raw.size \div 2)
               THEN PrepNothing
               ELSE PrepSome(OutputChain(RawSamples(raw.packet.data)))
          ELSE CodecResult(codecOk)
    /\ UNCHANGED <<prepVars, agcOut, denoised, speechSeen, speechCalls>>

PreprocessorOnly ==
    UNCHANGED <<bufferSide, hostLittleEndian, codecSide, wireSide, udpSide, pipeSide,
                waitSide, calcSide>>

NextPreprocessor ==
    \/ \E config \in PrepConfigs, componentsOk \in BOOLEAN :
          PreprocessorInitialize(config, componentsOk) /\ PreprocessorOnly
    \/ PreprocessorShutdown /\ PreprocessorOnly
    \/ \E config \in PrepConfigs : UpdateConfig(config) /\ PreprocessorOnly
    \/ \E callable \in BOOLEAN : SetOnSpeechDetected(callable) /\ PreprocessorOnly
    \/ \E frame \in PrepFrames, probability \in SpeechProbabilities :
          ProcessInput(frame, probability) /\ PreprocessorOnly
    \/ \E frame \in PrepFrames : ProcessOutput(frame) /\ PreprocessorOnly
    \/ \E frame \in PrepFrames, probability \in SpeechProbabilities, codecOk \in BOOLEAN :
          PreprocessorEncode(frame, probability, codecOk) /\ PreprocessorOnly
    \/ \E raw \in PrepPackets, codecOk \in BOOLEAN :
          PreprocessorDecode(raw, codecOk) /\ PreprocessorOnly

SpecPreprocessor == InitBuffer /\ [][NextPreprocessor]_vars

(***************************************************************************)
(* Claims on the frame buffer.                                             *)
(***************************************************************************)

\* C1: after every BufferManager operation the input queue and the output
\* queue each hold at most K frames, K the currently configured capacity.
CapacityBound ==
    Quiescent =>
        /\ Len(inputBuffer_) <= maxBufferSize_
        /\ Len(outputBuffer_) <= maxBufferSize_

\* C2: for each queue, pushed - popped - dropped == size, and the dropped
\* counter has increased by one exactly for every frame evicted.
FrameAccounting ==
    Quiescent =>
        /\ pushed["in"] - popped["in"] - droppedPackets_ = Len(inputBuffer_)
        /\ pushed["out"] - popped["out"] - droppedPackets_ = Len(outputBuffer_)
        /\ droppedPackets_ = evicted

\* The closed form of a burst of n pushes followed by j pops: the queue holds
\* the last min(n, K) frames pushed but the j popped, oldest first, and the
\* frame popped last is the one before them.
BurstClosedForm ==
    LET n == pushed["in"]
        m == Min(pushed["in"], maxBufferSize_)
        j == popped["in"]
    IN  /\ Len(inputBuffer_) = m - j
        /\ droppedPackets_ = Max(0, n - maxBufferSize_)
        /\ \A i \in 1..Len(inputBuffer_) :
              inputBuffer_[i].sequenceNumber = n - m + j + i - 1
        /\ ~ret.packet.isNull => ret.packet.sequenceNumber = n - m + j - 1

\* C3: drop-oldest under burst: after n pushes into the empty buffer of
\* capacity K, size = min(n, K), droppedCount = max(0, n - K), and the pops
\* return the last min(n, K) frames pushed in push order.
BurstDropOldest == Quiescent => BurstClosedForm

\* C3, for a capacity of at least one frame: the same closed form.
BurstDropOldestPositiveCapacity ==
    (Quiescent /\ maxBufferSize_ >= 1) => BurstClosedForm

\* C3: K = 2, n = 4: size 2, dropped 2, and the second pop returns seq 3.
BurstDropOldestReached ==
    /\ Quiescent /\ maxBufferSize_ = 2 /\ pushed["in"] = 4
    /\ droppedPackets_ = 2 /\ popped["in"] = 2
    /\ ret.packet.sequenceNumber = 3

\* C4: the sequence numbers pushInputBuffer assigns are strictly increasing
\* and the first one is 0.
SequenceStrictlyIncreasing ==
    [][\A t \in Threads :
          (pc[t] = "seqLoaded" /\ pc'[t] = "pushIn") =>
              /\ reg[t] > lastAssigned
              /\ lastAssigned = -1 => reg[t] = 0]_vars

(***************************************************************************)
(* Claims on the codec.                                                    *)
(***************************************************************************)

\* C5: the sequence numbers of the EncodedPackets of one codec are strictly
\* increasing and start at 0, with failed encode calls in between and with
\* several threads encoding: every packet is numbered above all packets
\* constructed before it, the first one 0, and no call that fails consumes
\* or changes the next number.
EncoderSequenceIncreasing ==
    [][/\ \A e \in Encoders :
             (encPc[e] = "validated" /\ encPc'[e] = "return" /\ ~encRet'[e].isNull) =>
                 /\ encRet'[e].sequenceNumber > lastEncoded
                 /\ lastEncoded = -1 => encRet'[e].sequenceNumber = 0
       /\ encodingErrors_' # encodingErrors_ =>
             /\ codecNextSequenceNumber_' = codecNextSequenceNumber_
             /\ lastEncoded' = lastEncoded]_vars

\* C5: both threads hold a packet, numbered 1 and 2, after a failed call.
EncoderSequenceReached ==
    /\ encPc["e1"] = "return" /\ encPc["e2"] = "return"
    /\ encRet["e1"].sequenceNumber = 2 /\ encRet["e2"].sequenceNumber = 1
    /\ encodingErrors_ >= 1

(***************************************************************************)
(* Claims on the wire format.                                              *)
(***************************************************************************)

\* C6: a packet that is serialized and deserialized again comes back with
\* the same sequence number and the same payload, for payloads from empty
\* up to 1020 bytes.
WireRoundTrip ==
    (wireStage = "packet read" /\ ~wirePacket.isNull) =>
        /\ ~wireOut.isNull
        /\ wireOut.sequenceNumber = wirePacket.sequenceNumber
        /\ wireOut.data = wirePacket.data

\* C6: the packet with an empty payload has made the round trip through a
\* datagram of four bytes, and so has one with 1020 bytes of payload.
WireRoundTripEmptyReached ==
    /\ wireStage = "packet read"
    /\ wirePacket = AudioPacket(<<>>, 12345)
    /\ Len(wireData) = 4
    /\ wireOut = wirePacket

\* C7: a datagram that starts with the bytes 39 30 00 00 (hexadecimal)
\* deserializes to sequence number 12345 whatever the host's byte order.
KnownBytesDecode ==
    (/\ wireStage = "packet read"
     /\ Len(wireData) >= 4
     /\ SubSeq(wireData, 1, 4) = <<57, 48, 0, 0>>) =>
        wireOut.sequenceNumber = 12345

(***************************************************************************)
(* Further claims on the frame buffer.                                     *)
(***************************************************************************)
Newest(buffer) == buffer[Len(buffer)]

PresentPackets == SamplePackets \ {NullPacket}

FrameLength == (sampleRate_ * LYRA_FRAME_SIZE_MS) \div 1000

\* C22: an encode call on the initialized codec whose input length differs
\* from the frame length (sampleRate x 20 ms) returns no packet, adds exactly
\* one to the encode-error counter, and leaves the next sequence number, the
\* encoded-frames counter and the bitrate as they were; nothing of the input
\* is taken.
WrongLengthRejected ==
    [][\A e \in Encoders, input \in EncodeInputs :
          (/\ initialized_ /\ ~input.isNull
           /\ Len(input.samples) # FrameLength
           /\ EncodeRejected(e, input) \/ EncodeValidated(e, input)) =>
              /\ encRet'[e] = NoPacket
              /\ encPc'[e] = "idle" /\ encArg' = encArg
              /\ encodingErrors_' = encodingErrors_ + 1
              /\ codecNextSequenceNumber_' = codecNextSequenceNumber_
              /\ encodedFrames_' = encodedFrames_
              /\ currentBitrate_' = currentBitrate_]_vars

\* C22: after one frame was encoded at 48 kHz, a call with another length
\* was rejected by the length check; one packet and one error are counted.
WrongLengthCounted ==
    /\ initialized_ /\ sampleRate_ = 48000
    /\ encRejectedBy = "validateInputSize"
    /\ encodingErrors_ = 1
    /\ encodedFrames_ = 1 /\ codecNextSequenceNumber_ = 1
    /\ \A e \in Encoders : encPc[e] = "idle"

\* C23: the codec bitrate always lies within [3200, 9200].  initialize
\* accepts only a sample rate of 16000, 32000 or 48000, one channel and a
\* bitrate in the range; setBitrate with a value out of range returns false
\* and leaves the bitrate as it was; every EncodedPacket carries the bitrate
\* accepted last before it was encoded, which is in the range.
CodecBitrateInRange ==
    /\ [](/\ isValidBitrate(currentBitrate_)
          /\ currentBitrate_ = acceptedBitrate
          /\ initialized_ => (sampleRate_ \in {16000, 32000, 48000} /\ channels_ = 1))
    /\ [][/\ currentBitrate_' # currentBitrate_ => codecRet' = "true"
          /\ initialized_' # initialized_ => codecRet' = "true"
          /\ codecRet' = "false" =>
                UNCHANGED <<currentBitrate_, initialized_, sampleRate_, channels_>>
          /\ \A bitrate \in {LYRA_MIN_BITRATE - 1, LYRA_MAX_BITRATE + 1} :
                SetBitrate(bitrate) =>
                   (codecRet' = "false" /\ currentBitrate_' = currentBitrate_)
          /\ \A e \in Encoders :
                (encPc[e] = "validated" /\ encPc'[e] = "return" /\ ~encRet'[e].isNull) =>
                   /\ encRet'[e].bitrate = acceptedBitrate
                   /\ isValidBitrate(encRet'[e].bitrate)]_vars

\* C23: a packet was encoded at the bitrate given to initialize, a second
\* one after setBitrate(6000) carries 6000, and a call rejected since has
\* left the bitrate at 6000.
PacketCarriesAcceptedBitrate ==
    /\ initialized_
    /\ ~encRet["e1"].isNull /\ encRet["e1"].bitrate = LYRA_MIN_BITRATE
    /\ ~encRet["e2"].isNull /\ encRet["e2"].bitrate = LYRA_DEFAULT_BITRATE
    /\ encRet["e2"].sequenceNumber > encRet["e1"].sequenceNumber
    /\ codecRet = "false"
    /\ currentBitrate_ = LYRA_DEFAULT_BITRATE

(***************************************************************************)
(* Claims on the transport.                                                *)
(***************************************************************************)

\* C8: a received datagram shorter than four bytes is discarded: the turn
\* of the receive loop that reads it pushes nothing to the output buffer and
\* invokes no packet-received callback, and the loop is still running after
\* it; a datagram of four bytes or more read afterwards is deserialized and
\* pushed.
ShortDatagramDiscarded ==
    [][datagramsRead' # datagramsRead =>
          IF Len(rxBuffer') < 4
          THEN /\ outputBuffer_' = outputBuffer_
               /\ pushed' = pushed
               /\ packetCallbacks' = packetCallbacks
               /\ receiverThread_' = "running"
               /\ isRunning_' = isRunning_ /\ socketFd_' = socketFd_
          ELSE bufferManager_ =>
               /\ outputBuffer_' # <<>>
               /\ outputBuffer_'[Len(outputBuffer_')] = deserializePacket(rxBuffer')]_vars

\* C8: a datagram of three bytes has been read with buffer and callback
\* attached, nothing was delivered, and the loop runs on.
ShortDatagramReached ==
    /\ rxBuffer = <<57, 48, 0>>
    /\ shortDatagrams = 1 /\ datagramsRead = 1
    /\ bufferManager_ /\ onPacketReceived_
    /\ outputBuffer_ = <<>> /\ packetCallbacks = 0
    /\ receiverThread_ = "running" /\ isRunning_

\* C9: one of the exposed counters counts the malformed datagrams: it
\* goes up by one with each datagram shorter than four bytes and with
\* nothing else, so it equals their number at all times.
MalformedCounterExposed ==
    \E counter \in {sentPackets_, receivedPackets_, failedSends_} :
        counter = shortDatagrams

\* C10: once setRemoteAddress(ip, port) has succeeded on a transport started
\* with startServer, every later sendto goes to ip:port, whatever datagrams
\* are received in between.
PeerSendsToConfiguredRemote ==
    [][(/\ sentPackets_' + failedSends_' # sentPackets_ + failedSends_
        /\ isServer_
        /\ peerRemote # ZeroAddr) => sentTo' = peerRemote]_vars

\* a startServer or startClient call, whatever its arguments
StartCall ==
    \/ \E port \in SamplePorts, socketOk \in BOOLEAN, bindOk \in BOOLEAN :
          StartServer(port, socketOk, bindOk)
    \/ \E serverIP \in SampleIPs, port \in SamplePorts, socketOk \in BOOLEAN :
          StartClient(serverIP, port, socketOk)

\* C26: start is idempotent.  A startServer or startClient call on a
\* transport that is running leaves the socket, the role, the remote target
\* and the receive loop as they are and returns what the first successful
\* start returned, true.
StartIdempotent ==
    [][(isRunning_ /\ StartCall) =>
          /\ UNCHANGED <<socketFd_, isServer_, remoteAddr_, receiverThread_, isRunning_>>
          /\ udpRet' = "true"]_vars

\* C26, the part that holds: the call changes nothing of the transport.
StartOnRunningChangesNothing ==
    [][(isRunning_ /\ StartCall) => UNCHANGED <<udpVars, peerRemote, sentTo>>]_vars

\* C27: every send that reaches the socket adds one to exactly one of
\* sentPackets_ and failedSends_: a complete send to sentPackets_ and returns
\* true, an error or a partial send to failedSends_ and returns false, with
\* one sendto per call; a send rejected before the socket (null packet,
\* transport not running, no data) changes neither counter.
SendCountedOnce ==
    [][/\ \A outcome \in SendOutcomes :
            /\ \A packet \in SendPackets :
                  SendAudioPacket(packet, outcome) =>
                     IF packet.isNull \/ ~isRunning_ \/ socketFd_ < 0
                     THEN /\ UNCHANGED <<sentPackets_, failedSends_, sentTo>>
                          /\ udpRet' = "false"
                     ELSE IF outcome = "sent"
                     THEN /\ sentPackets_' = sentPackets_ + 1
                          /\ failedSends_' = failedSends_ /\ udpRet' = "true"
                     ELSE /\ failedSends_' = failedSends_ + 1
                          /\ sentPackets_' = sentPackets_ /\ udpRet' = "false"
            /\ \A data \in SendBuffers :
                  SendData(data, outcome) =>
                     IF data = <<>> \/ ~isRunning_ \/ socketFd_ < 0
                     THEN /\ UNCHANGED <<sentPackets_, failedSends_, sentTo>>
                          /\ udpRet' = "false"
                     ELSE IF outcome = "sent"
                     THEN /\ sentPackets_' = sentPackets_ + 1
                          /\ failedSends_' = failedSends_ /\ udpRet' = "true"
                     ELSE /\ failedSends_' = failedSends_ + 1
                          /\ sentPackets_' = sentPackets_ /\ udpRet' = "false"
       \* the counters move by one, one at a time, and only with a sendto
       /\ sentPackets_' + failedSends_' \in
             {sentPackets_ + failedSends_, sentPackets_ + failedSends_ + 1}
       /\ sentPackets_' >= sentPackets_ /\ failedSends_' >= failedSends_
       /\ sentPackets_' # sentPackets_ => udpRet' = "true"
       /\ failedSends_' # failedSends_ => udpRet' = "false"]_vars

\* C27: one send was complete and two were not; the last one, on the
\* running transport, is counted as failed and returned false.
FailedSendCounted ==
    /\ isRunning_ /\ socketFd_ >= 0
    /\ failedSends_ = 2 /\ sentPackets_ = 1
    /\ udpRet = "false"
    /\ sentTo = remoteAddr_ /\ sentTo # ZeroAddr

\* C13: a stop() call on a running transport closes the socket, and
\* eventually the receive loop has exited and the call has returned with
\* isRunning_ false.
StopReturns ==
    stopping ~> (~stopping /\ ~isRunning_ /\ socketFd_ = -1 /\ receiverThread_ = "none")

\* C13, the part that holds: between the return of stop() and the next
\* start, no datagram is read and nothing reaches the output buffer.
NoDeliveryAfterStop ==
    [][(~isRunning_ /\ ~stopping) =>
          (outputBuffer_' = outputBuffer_ /\ datagramsRead' = datagramsRead)]_vars

(***************************************************************************)
(* Claims on the running program.                                          *)
(***************************************************************************)

\* C11: in a running session a frame captured at this endpoint is eventually
\* sent by its transport (the sent counter becomes 1 for the first frame),
\* which is what lets the peer deliver it to its playback buffer.
CapturedFrameSent ==
    (ctl["main"] = "run" /\ capturedFrames_ > 0) ~> (sentPackets_ >= 1 \/ ~g_running)

\* C12: once SIGINT or SIGTERM has arrived while the pipeline runs, on
\* whatever thread, shutdown completes: the capture, playback, receive and
\* statistics workers have ended and are joined, the socket is closed, both
\* buffers are empty and the process has exited with code 0.
OrderlyShutdown ==
    (ctl["signal"] # "none") ~>
        /\ exitStatus = "0"
        /\ captureThread_ = "none" /\ playbackThread_ = "none"
        /\ receiverThread_ = "none" /\ statsThread = "none"
        /\ socketFd_ = -1
        /\ inputBuffer_ = <<>> /\ outputBuffer_ = <<>>

\* C14: when the playback worker, still playing, got no frame from the
\* playback buffer, the iteration hands a zero-filled period of
\* FRAMES_PER_BUFFER 16-bit frames to the device and the worker is back at
\* the head of its loop.
SilenceOnStarvation ==
    [][(playbackThread_ = "fetched" /\ playbackThread_' # "fetched"
          /\ ~ret.ok /\ isPlaying_)
       => /\ playbackThread_' = "running"
          /\ pcmWrites' = pcmWrites + 1
          /\ Len(pcmWritten') = FRAMES_PER_BUFFER * CHANNELS * 2
          /\ \A i \in 1..Len(pcmWritten') : pcmWritten'[i] = 0]_vars

SilenceWritten ==
    /\ playbackThread_ = "running" /\ isPlaying_
    /\ ~ret.ok
    /\ pcmWrites = 1
    /\ Len(pcmWritten) = FRAMES_PER_BUFFER * CHANNELS * 2
    /\ \A i \in 1..Len(pcmWritten) : pcmWritten[i] = 0

\* C28: the components are released in the reverse of their creation order,
\* transport, capture, playback (initializeSystem).  Of any two the one
\* created later is stopped and its worker joined before the one created
\* earlier is stopped: the playback before the capture, and both before
\* the transport.
ReleasedInReverseOrder ==
    [][/\ (isCapturing_ /\ ~isCapturing_') =>
             (~isPlaying_ /\ playbackThread_ = "none")
       /\ (isRunning_ /\ ~isRunning_') =>
             /\ ~isPlaying_ /\ playbackThread_ = "none"
             /\ ~isCapturing_ /\ captureThread_ = "none"]_vars

\* C25: a device error other than an overrun (capture) or an underrun
\* (playback) ends the worker: after the snd_pcm_readi or snd_pcm_writei that
\* returned it, the worker's loop is left and its thread has finished,
\* instead of going on to the next iteration
DeviceErrorFatal ==
    [][/\ CaptureRead("error") => captureThread_' = "finished"
       /\ (PlaybackWrite("error") /\ isPlaying_ /\ Len(PlaybackData) # 0)
              => playbackThread_' = "finished"]_vars

\* the part of C25 that holds: an overrun or an underrun is counted once and
\* the worker goes on to its next iteration
OverrunUnderrunRecovered ==
    [][/\ CaptureRead("overrun")
              => (bufferOverruns_' = bufferOverruns_ + 1 /\ captureThread_' = "running")
       /\ (PlaybackWrite("underrun") /\ isPlaying_ /\ Len(PlaybackData) # 0)
              => (bufferUnderruns_' = bufferUnderruns_ + 1 /\ playbackThread_' = "running")]_vars

(***************************************************************************)
(* Claims on getNextPlaybackPacket.                                        *)
(***************************************************************************)
PlaybackCallReturns ==
    /\ pc[PlaybackThread] \in {"idle", "waitOut"}
    /\ pc'[PlaybackThread] = "idle"
    /\ ret' # ret \/ popped' # popped \/ pc[PlaybackThread] = "waitOut"

\* C15: getNextPlaybackPacket returns the oldest frame of the output queue
\* when one is there on entry or at a wake-up before the timeout, returns
\* absent only when the timeout has passed with the queue empty, never
\* returns later than the timeout after its entry, and hands the frames out
\* in the order of their arrival whatever their sequence numbers.
PopPlaybackContract ==
    [][(PlaybackCallReturns /\ clock' = clock) =>
          /\ IF outputBuffer_ # <<>>
             THEN /\ ret' = Returned(TRUE, Head(outputBuffer_))
                  /\ outputBuffer_' = Tail(outputBuffer_)
                  /\ Arrival(ret'.packet) > lastPlayed
                  /\ \A i \in 1..Len(outputBuffer_') :
                        Arrival(outputBuffer_'[i]) > Arrival(ret'.packet)
             ELSE /\ ret' = Returned(FALSE, NullPacket)
                  /\ clock >= waitStart' + PlaybackTimeout
          /\ clock - waitStart' <= PlaybackTimeout]_vars

\* a frame with the smaller sequence number that arrived later is handed out
\* after the earlier one, by a call that had to wait
PlayedInArrivalOrder ==
    /\ pc[PlaybackThread] = "idle"
    /\ ret.ok /\ ret.packet.sequenceNumber = 3 /\ Arrival(ret.packet) = 2
    /\ lastPlayed = 2 /\ popped["out"] = 2
    /\ clock > waitStart

(***************************************************************************)
(* Claims on the BitrateCalculator.                                        *)
(***************************************************************************)

\* C16: whatever operations were called with whatever metrics, the
\* committed bitrate (getCurrentBitrate) lies within [3200, 9200].
BitrateClamped ==
    calcCurrentBitrate_ >= 3200 /\ calcCurrentBitrate_ <= 9200

\* initialize was given a bitrate above the range and a recomputation has
\* committed a value since
BitrateClampedReached ==
    /\ calcInitialized_
    /\ bitrateChanges_ > 0
    /\ Len(bitrateHistory_) = 2 /\ bitrateHistory_[1] = 9200

\* C17: while identical metrics are reported again and again, the committed
\* bitrate changes at most once.
StableUnderRepeatedMetrics ==
    repeatChanges <= 1

\* C18: on every path that changes the committed bitrate, metric updates and
\* quality-mode changes, the change is at least stabilityThreshold_ of the
\* value before it.
CommitNeedsThreshold ==
    [][(calcCurrentBitrate_' # calcCurrentBitrate_
          /\ lastOp' \in {"updateNetworkMetrics", "updateAudioMetrics", "setQualityMode"})
       => LET d == calcCurrentBitrate_' - calcCurrentBitrate_
          IN  (IF d < 0 THEN -d ELSE d) * 10 >= stabilityThreshold_ * calcCurrentBitrate_]_vars

\* C19: started at 6000 bps, once 10 lost packets of 100 and a latency of
\* 100 ms are reported and recomputation is triggered repeatedly, the
\* committed bitrate is at most 4600 within 10 updates, and stays there.
BitrateFallsUnderLoss ==
    /\ (calcInitialized_ /\ networkMetrics_.packetLossRate = 100
          /\ networkMetrics_.averageLatency > 0)
          ~> (calcCurrentBitrate_ <= 4600 /\ calcUpdates <= 10)
    /\ [][(networkMetrics_.packetLossRate = 100 /\ calcCurrentBitrate_ <= 4600)
             => calcCurrentBitrate_' <= 4600]_vars

\* C20: started at 3200 bps, with speech of RMS 0.8 and SNR 25 dB, no loss
\* and 50 ms latency reported repeatedly, the committed bitrate is at least
\* 8000 within 10 updates.
BitrateRisesOnCleanChannel ==
    calcInitialized_ ~> (calcCurrentBitrate_ >= 8000 /\ calcUpdates <= 10)

(***************************************************************************)
(* Claims on the AudioPreprocessor.                                        *)
(***************************************************************************)
\* C21: on a preprocessor initialized with the codec switched off, encode of
\* a 20 ms frame returns a packet, and decode of the packet encode makes of
\* a 20 ms frame returns the samples of that frame
PassThroughRoundTrip ==
    (prepInitialized_ /\ ~config_.enableCodec) =>
        /\ (prepOp = "encode" /\ prepArg \in SpeechFrames) => prepRet.ok
        /\ prepOp = "decode" =>
               \A frame \in SpeechFrames :
                   prepArg = RawPacket(frame) => prepRet = PrepSome(frame.samples)

\* C24: with a callback set, a frame that passes through the input chain
\* after another one has the callback invoked exactly when its
\* speech-detected value differs from that of the frame before
SpeechCallbackOnFlip ==
    [][(/\ onSpeechDetected_
        /\ Len(speechSeen) >= 1
        /\ Len(speechSeen') = Len(speechSeen) + 1)
          => ((Len(speechCalls') = Len(speechCalls) + 1)
                 <=> (speechSeen'[Len(speechSeen')] # speechSeen[Len(speechSeen)]))]_vars

\* C29: every sample applyAGC leaves in the buffer lies in [-1, 1], and
\* currentGain_ lies in [0.1, 2.0] whatever frames have gone through
AGCWithinLimits ==
    /\ currentGain_ >= GainFloor /\ currentGain_ <= GainCeiling
    /\ \A i \in DOMAIN agcOut : agcOut[i] >= -FloatOne /\ agcOut[i] <= FloatOne

\* a frame has gone through applyAGC with a gain that takes one of its
\* samples above 1, and the sample was left at 1
AGCClipped ==
    /\ prepOp = "processInput"
    /\ prepRet.ok
    /\ config_.enableAGC
    /\ \E i \in DOMAIN agcOut :
          /\ TruncDiv(int16ToFloat(prepArg.samples[i]) * currentGain_, GainOne) > FloatOne
          /\ agcOut[i] = FloatOne

(***************************************************************************)
(* Further claims on the BitrateCalculator.                                *)
(***************************************************************************)
\* C31: every updateNetworkMetrics and updateAudioMetrics call returns: no
\* thread is ever left blocked on metricsMutex_ by the recomputation the
\* call triggers
MetricsUpdateReturns == metricsMutex_ = "free"

(***************************************************************************)
(* Claims on the two pushing threads.                                      *)
(***************************************************************************)
\* C32: whenever no push is in progress, droppedPackets_ (getDroppedPackets)
\* equals the number of frames evicted from the two queues
DroppedCountsEvictions == Quiescent => droppedPackets_ = evicted

(***************************************************************************)
(* Claims on the network-based target.                                     *)
(***************************************************************************)
\* the table of the network-based target: loss is in thousandths
TargetTable(metrics) ==
    IF metrics.packetLossRate > 50 \/ metrics.averageLatency > 500 THEN 3200
    ELSE IF metrics.packetLossRate > 20 \/ metrics.averageLatency > 200 THEN 4600
    ELSE 6000

\* the table, capped at 0.8 times a known bandwidth
TargetCapped(metrics) ==
    IF metrics.bandwidth > 0
    THEN Min(TargetTable(metrics), metrics.bandwidth * 800)
    ELSE TargetTable(metrics)

\* the target does not rise from the stored metrics to metrics of the grid
\* with as much loss and latency or more on the same bandwidth
TargetMonotone ==
    \A worse \in NetworkGrid :
        (/\ worse.packetLossRate >= networkMetrics_.packetLossRate
         /\ worse.averageLatency >= networkMetrics_.averageLatency
         /\ worse.bandwidth = networkMetrics_.bandwidth)
           => calculateNetworkBasedBitrate(worse)
                 <= calculateNetworkBasedBitrate(networkMetrics_)

\* C33: for the metrics the calculator holds, the network-based target is
\* the one of the table capped at 0.8 times a known bandwidth, does not rise
\* when loss or latency rises, and is never below 3200
NetworkTargetFollowsTable ==
    /\ calculateNetworkBasedBitrate(networkMetrics_) = TargetCapped(networkMetrics_)
    /\ TargetMonotone
    /\ calculateNetworkBasedBitrate(networkMetrics_) >= 3200

\* the part of C33 that holds: the table, the cap and the monotonicity
NetworkTargetTableAndCap ==
    /\ calculateNetworkBasedBitrate(networkMetrics_) = TargetCapped(networkMetrics_)
    /\ TargetMonotone

(***************************************************************************)
(* C34: on an initialized codec, encode of a frame of exactly the frame    *)
(* length succeeds with a payload of twice as many bytes as the frame has  *)
(* samples; decode of the payload of a packet encode returned returns the  *)
(* samples of the frame it was encoded from; decode of a payload with an   *)
(* odd number of bytes returns std::nullopt and adds one to                *)
(* decodingErrors_.                                                        *)
(***************************************************************************)
DecodeStep == decodedFrames_' + decodingErrors_' # decodedFrames_ + decodingErrors_

PassThroughCodecRoundTrip ==
    [][/\ \A e \in Encoders :
             (/\ encPc[e] = "validated" /\ encPc'[e] = "return"
              /\ Len(encArg[e].samples) = getExpectedInputSize) =>
                 /\ ~encRet'[e].isNull
                 /\ Len(encRet'[e].data) = 2 * getExpectedInputSize
                 /\ encodingErrors_' = encodingErrors_
       /\ DecodeStep =>
             /\ \A e \in Encoders :
                   (/\ initialized_ /\ ~encRet[e].isNull
                    /\ decArg' = EncodedData(encRet[e].data)) =>
                       /\ decRet' = DecodedAudio(encFrame[e])
                       /\ decodedFrames_' = decodedFrames_ + 1
             /\ (~decArg'.isNull /\ Len(decArg'.bytes) % 2 = 1) =>
                   /\ decRet' = NullAudio
                   /\ decodingErrors_' = decodingErrors_ + 1
                   /\ decodedFrames_' = decodedFrames_]_vars

\* a frame whose samples differ came back from decode on a big-endian host,
\* after a decode that failed
RoundTripDecoded ==
    /\ ~hostLittleEndian
    /\ ~encRet["e1"].isNull
    /\ encFrame["e1"] = RampFrame(320)
    /\ decArg = EncodedData(encRet["e1"].data)
    /\ decRet = DecodedAudio(RampFrame(320))
    /\ decodingErrors_ = 1

(***************************************************************************)
(* C35: the destination of every sendto is a pair that one startClient or  *)
(* setRemoteAddress call was given, or the source of one datagram (or the  *)
(* zeroed address of the constructor, before any of them): never the ip    *)
(* of one and the port of another.  In SpecRemote the pairs given and the  *)
(* sources are SampleSources.                                              *)
(***************************************************************************)
SendsToWholePair == sentTo \in SampleSources \cup {ZeroAddr}

(***************************************************************************)
(* C36: on a transport started with startServer, a datagram of fewer than  *)
(* four bytes leaves remoteAddr_ as it was.                                *)
(***************************************************************************)
MalformedKeepsTarget ==
    [][(/\ datagramsRead' # datagramsRead
        /\ isServer_
        /\ Len(rxBuffer') < 4) => remoteAddr_' = remoteAddr_]_vars

(***************************************************************************)
(* C37: a setRemoteAddress call that returns false, for an ip that does    *)
(* not parse or on a transport that is not running, leaves remoteAddr_ as  *)
(* it was.                                                                 *)
(***************************************************************************)
FailedSetRemoteKeepsTarget ==
    [][\A ip \in SampleIPs, port \in SamplePorts :
          (SetRemoteAddress(ip, port) /\ udpRet' = "false") =>
              remoteAddr_' = remoteAddr_]_vars

\* C37, the part that holds: the call on a transport that is not running
SetRemoteWhenStoppedKeepsTarget ==
    [][\A ip \in SampleIPs, port \in SamplePorts :
          (SetRemoteAddress(ip, port) /\ ~isRunning_) =>
              (remoteAddr_' = remoteAddr_ /\ udpRet' = "false")]_vars

(***************************************************************************)
(* C38: while isRunning_ is true the receiver thread is in its loop, about *)
(* to call recvfrom or inside it.                                          *)
(***************************************************************************)
RunningMeansReceiving == isRunning_ => receiverThread_ \in {"running", "blocked"}

(***************************************************************************)
(* C39: with enableNoiseSupression set, a processInput call that succeeds  *)
(* has handed every complete sub-frame of RNNOISE_FRAME_SIZE samples of    *)
(* its frame to the NoiseSuppresor: both halves of a frame of 960 samples. *)
(***************************************************************************)
CompleteSubFrames(sampleCount) ==
    {k \in 0..(sampleCount \div RNNOISE_FRAME_SIZE) :
        (k + 1) * RNNOISE_FRAME_SIZE <= sampleCount}

EverySubFrameDenoised ==
    (/\ prepOp = "processInput" /\ prepRet = PrepDone
     /\ config_.enableNoiseSupression /\ noiseSuppresor_) =>
        denoised = CompleteSubFrames(prepArg.count)

\* C39, the part that holds: the first complete sub-frame is denoised, and
\* nothing of a frame that has no complete sub-frame
FirstSubFrameDenoised ==
    (/\ prepOp = "processInput" /\ prepRet = PrepDone
     /\ config_.enableNoiseSupression /\ noiseSuppresor_) =>
        denoised = CompleteSubFrames(prepArg.count) \cap {0}

====
